---- MODULE Spec2Model ----
(***************************************************************************)
(* AgentMesh ingestion core: the orchestrator (runIngestionCycle), the two *)
(* source adapters (runClaudeSource, runOpenCodeSource), the upsert layer  *)
(* (persistSessions) and the watcher / backfill processes that drive them. *)
(*                                                                         *)
(* Time is a small integer clock.  The store is modelled table by table as *)
(* sequences of rows; a row's surrogate id is its index.  Every `await` on *)
(* the store inside a cycle is one step of that cycle, so that overlapping *)
(* cycles, store failures and process exits fall between the same points   *)
(* as in the code.                                                         *)
(***************************************************************************)
EXTENDS Integers, Sequences, FiniteSets, TLC

\* ---------------------------------------------------------------- bounds
MaxTime == 3          \* the clock runs 1..MaxTime
MaxClaudeEvents == 2  \* lines ever appended to the Claude log
MaxOcMessages == 1    \* message files ever written to the OpenCode store
MaxCycles == 3        \* ingestion cycles ever started
MaxBackfills == 2     \* backfills run one after another
MaxFaults == 1        \* injected failures (store error, fs error, process exit)
MaxManualCalls == 3   \* calls of ingestCanonicalBundle
MaxTextLen == 5       \* tokens of a text handed to sanitizeImportedText
MaxHeadLen == 2       \* tokens in front of the run of letters of a long text
MaxTailLen == 1       \* tokens behind it
MaxMessages == 3      \* messages handed to deriveSessionSummary
MaxRawLen == 6        \* tokens of a text handed to parseTranscript
MaxScanItems == 3     \* lines of a log, or message files of a session, handed to a scan
MaxPersists == 2      \* times the result of one scan is written to the store

\* ------------------------------------------------------ program constants
LookbackDays == 1     \* DEFAULT_LOOKBACK_DAYS under INGEST_LOOKBACK_DAYS=1; the clock counts days
TitleMax == 80
SummaryMax == 180
SummaryKeep == 177
SessionIdPrefix == 8

None == "none"        \* undefined / absent string
NoText == <<"<undefined>">>   \* undefined text
NullText == <<"<null>">>      \* null text
NoTs == -1            \* undefined Date

Min(a, b) == IF a <= b THEN a ELSE b

\* ------------------------------------------------------------------ text
\* A text is a sequence of tokens: plain characters, whitespace, and the
\* opening / closing markup tags that sanitizeImportedText recognises.
WhiteSpace == {" ", "\n"}

OpenTags(tag) ==
  CASE tag = "local-command-caveat" -> {"<local-command-caveat>", "<LOCAL-COMMAND-CAVEAT>"}
    [] tag = "system-reminder" -> {"<system-reminder>", "<SYSTEM-REMINDER>"}
    [] tag = "local-command-stdout" -> {"<local-command-stdout>", "<LOCAL-COMMAND-STDOUT>"}

CloseTags(tag) ==
  CASE tag = "local-command-caveat" -> {"</local-command-caveat>", "</LOCAL-COMMAND-CAVEAT>"}
    [] tag = "system-reminder" -> {"</system-reminder>", "</SYSTEM-REMINDER>"}
    [] tag = "local-command-stdout" -> {"</local-command-stdout>", "</LOCAL-COMMAND-STDOUT>"}

\* an opening tag may also stand in the text as two adjacent pieces, e.g.
\* "<system-" followed by "reminder>": the characters are the same
OpenHead(tag) ==
  CASE tag = "local-command-caveat" -> "<local-command-"
    [] tag = "system-reminder" -> "<system-"
    [] tag = "local-command-stdout" -> "<local-command-"

OpenTail(tag) ==
  CASE tag = "local-command-caveat" -> "caveat>"
    [] tag = "system-reminder" -> "reminder>"
    [] tag = "local-command-stdout" -> "stdout>"

\* number of tokens of the opening tag that starts at position i, 0 for none
OpenLen(s, i, tag) ==
  IF s[i] \in OpenTags(tag) THEN 1
  ELSE IF i < Len(s) /\ s[i] = OpenHead(tag) /\ s[i + 1] = OpenTail(tag) THEN 2
  ELSE 0

\* a pattern whose middle is greedy: up to the last closing tag
RECURSIVE StripGreedy(_, _, _)
StripGreedy(s, i, tag) ==
  IF i > Len(s) THEN <<>>
  ELSE IF /\ OpenLen(s, i, tag) > 0
          /\ \E j \in (i + OpenLen(s, i, tag))..Len(s) : s[j] \in CloseTags(tag)
       THEN LET j == CHOOSE k \in (i + OpenLen(s, i, tag))..Len(s) :
                       /\ s[k] \in CloseTags(tag)
                       /\ \A m \in (k + 1)..Len(s) : s[m] \notin CloseTags(tag)
            IN StripGreedy(s, j + 1, tag)
       ELSE <<s[i]>> \o StripGreedy(s, i + 1, tag)

\* value.replaceAll(/<tag>[\s\S]*?<\/tag>/gi, ""): one pass from the left;
\* at an opening tag that has a closing tag after it, everything up to the
\* nearest such closing tag is dropped and the pass goes on behind it
RECURSIVE StripFrom(_, _, _)
StripFrom(s, i, tag) ==
  IF i > Len(s) THEN <<>>
  ELSE IF /\ OpenLen(s, i, tag) > 0
          /\ \E j \in (i + OpenLen(s, i, tag))..Len(s) : s[j] \in CloseTags(tag)
       THEN LET j == CHOOSE k \in (i + OpenLen(s, i, tag))..Len(s) :
                       /\ s[k] \in CloseTags(tag)
                       /\ \A m \in (i + OpenLen(s, i, tag))..(k - 1) :
                            s[m] \notin CloseTags(tag)
            IN StripFrom(s, j + 1, tag)
       ELSE <<s[i]>> \o StripFrom(s, i + 1, tag)

StripTag(s, tag) == StripFrom(s, 1, tag)

RECURSIVE TrimLeft(_)
TrimLeft(s) ==
  IF s # <<>> /\ Head(s) \in WhiteSpace THEN TrimLeft(Tail(s)) ELSE s

RECURSIVE TrimRight(_)
TrimRight(s) ==
  IF s # <<>> /\ s[Len(s)] \in WhiteSpace
  THEN TrimRight(SubSeq(s, 1, Len(s) - 1)) ELSE s

Trim(s) == TrimRight(TrimLeft(s))

sanitizeImportedText(value) ==
  Trim(StripTag(StripTag(StripTag(value, "local-command-caveat"),
                         "system-reminder"),
                "local-command-stdout"))

\* replaceAll(/\s+/g, " "): every run of whitespace becomes one space
RECURSIVE CollapseWs(_)
CollapseWs(s) ==
  IF s = <<>> THEN <<>>
  ELSE IF Head(s) \in WhiteSpace
       THEN IF Len(s) > 1 /\ s[2] \in WhiteSpace
            THEN CollapseWs(Tail(s))
            ELSE <<" ">> \o CollapseWs(Tail(s))
       ELSE <<Head(s)>> \o CollapseWs(Tail(s))

Slice(s, n) == SubSeq(s, 1, Min(Len(s), n))

\* a run of n letters
Letters(n) == [i \in 1..n |-> "a"]

\* lengths of the runs of letters that stand in a text as one token: the
\* lengths around the two cut-off points
RunLengths ==
  ((TitleMax - 2)..(TitleMax + 1)) \cup ((SummaryMax - 4)..(SummaryMax + 1))

\* the token that stands for a run of n letters
RunToken(n) ==
  CASE n = 78 -> "a*78"
    [] n = 79 -> "a*79"
    [] n = 80 -> "a*80"
    [] n = 81 -> "a*81"
    [] n = 176 -> "a*176"
    [] n = 177 -> "a*177"
    [] n = 178 -> "a*178"
    [] n = 179 -> "a*179"
    [] n = 180 -> "a*180"
    [] n = 181 -> "a*181"

RunTokens == {RunToken(n) : n \in RunLengths}

RunLength(tok) == CHOOSE n \in RunLengths : RunToken(n) = tok

\* the characters of a token: a tag or a piece of a tag is spelt out, a run
\* of letters is that many letters, every other token is one character
CharsOf(tok) ==
  CASE tok = "<local-command-caveat>" ->
         <<"<", "l", "o", "c", "a", "l", "-", "c", "o", "m", "m", "a", "n", "d", "-", "c", "a", "v", "e", "a", "t", ">">>
    [] tok = "<LOCAL-COMMAND-CAVEAT>" ->
         <<"<", "L", "O", "C", "A", "L", "-", "C", "O", "M", "M", "A", "N", "D", "-", "C", "A", "V", "E", "A", "T", ">">>
    [] tok = "</local-command-caveat>" ->
         <<"<", "/", "l", "o", "c", "a", "l", "-", "c", "o", "m", "m", "a", "n", "d", "-", "c", "a", "v", "e", "a", "t", ">">>
    [] tok = "</LOCAL-COMMAND-CAVEAT>" ->
         <<"<", "/", "L", "O", "C", "A", "L", "-", "C", "O", "M", "M", "A", "N", "D", "-", "C", "A", "V", "E", "A", "T", ">">>
    [] tok = "<system-reminder>" ->
         <<"<", "s", "y", "s", "t", "e", "m", "-", "r", "e", "m", "i", "n", "d", "e", "r", ">">>
    [] tok = "<SYSTEM-REMINDER>" ->
         <<"<", "S", "Y", "S", "T", "E", "M", "-", "R", "E", "M", "I", "N", "D", "E", "R", ">">>
    [] tok = "</system-reminder>" ->
         <<"<", "/", "s", "y", "s", "t", "e", "m", "-", "r", "e", "m", "i", "n", "d", "e", "r", ">">>
    [] tok = "</SYSTEM-REMINDER>" ->
         <<"<", "/", "S", "Y", "S", "T", "E", "M", "-", "R", "E", "M", "I", "N", "D", "E", "R", ">">>
    [] tok = "<local-command-stdout>" ->
         <<"<", "l", "o", "c", "a", "l", "-", "c", "o", "m", "m", "a", "n", "d", "-", "s", "t", "d", "o", "u", "t", ">">>
    [] tok = "<LOCAL-COMMAND-STDOUT>" ->
         <<"<", "L", "O", "C", "A", "L", "-", "C", "O", "M", "M", "A", "N", "D", "-", "S", "T", "D", "O", "U", "T", ">">>
    [] tok = "</local-command-stdout>" ->
         <<"<", "/", "l", "o", "c", "a", "l", "-", "c", "o", "m", "m", "a", "n", "d", "-", "s", "t", "d", "o", "u", "t", ">">>
    [] tok = "</LOCAL-COMMAND-STDOUT>" ->
         <<"<", "/", "L", "O", "C", "A", "L", "-", "C", "O", "M", "M", "A", "N", "D", "-", "S", "T", "D", "O", "U", "T", ">">>
    [] tok = "<local-command-" ->
         <<"<", "l", "o", "c", "a", "l", "-", "c", "o", "m", "m", "a", "n", "d", "-">>
    [] tok = "<system-" ->
         <<"<", "s", "y", "s", "t", "e", "m", "-">>
    [] tok = "caveat>" ->
         <<"c", "a", "v", "e", "a", "t", ">">>
    [] tok = "reminder>" ->
         <<"r", "e", "m", "i", "n", "d", "e", "r", ">">>
    [] tok = "stdout>" ->
         <<"s", "t", "d", "o", "u", "t", ">">>
    [] tok = "tool call" ->
         <<"t", "o", "o", "l", " ", "c", "a", "l", "l">>
    [] tok \in RunTokens -> Letters(RunLength(tok))
    [] OTHER -> <<tok>>

\* the characters of a text, for String.length and String.slice
RECURSIVE Chars(_)
Chars(s) ==
  IF s = <<>> THEN <<>> ELSE CharsOf(Head(s)) \o Chars(Tail(s))

\* characters of a session id, for sessionId.slice(0, 8)
IdChars(sid) ==
  CASE sid = "s1" -> <<"s", "1">>
    [] sid = "o1" -> <<"o", "1">>
    [] sid = "abcdefgh-1" -> <<"a", "b", "c", "d", "e", "f", "g", "h", "-", "1">>
    [] OTHER -> <<>>

\* the cleaned content cut to the title length, or the session id prefix
\* clean.slice(0, 81)
TitleCutLate(clean, sessionId) ==
  IF clean = <<>>
  THEN <<"S", "e", "s", "s", "i", "o", "n", " ">>
         \o Slice(IdChars(sessionId), SessionIdPrefix)
  ELSE Slice(Chars(clean), TitleMax + 1)

TitleOf(clean, sessionId) ==
  IF clean = <<>>
  THEN <<"S", "e", "s", "s", "i", "o", "n", " ">>
         \o Slice(IdChars(sessionId), SessionIdPrefix)
  ELSE Slice(Chars(clean), TitleMax)

fallbackSessionTitle(content, sessionId) ==
  TitleOf(Trim(CollapseWs(sanitizeImportedText(content))), sessionId)

\* index of the first message satisfying a role, 0 when there is none
FirstWithRole(messages, role) ==
  IF \E i \in 1..Len(messages) : messages[i].role = role
  THEN CHOOSE i \in 1..Len(messages) :
         /\ messages[i].role = role
         /\ \A j \in 1..(i - 1) : messages[j].role # role
  ELSE 0

\* a choice that looks for a user message first
BestUserFirst(messages, a, u) ==
  IF u # 0 THEN u ELSE IF a # 0 THEN a
  ELSE IF Len(messages) > 0 THEN 1 ELSE 0

\* best = first assistant message ?? first user message ?? messages[0]
BestMessage(messages, a, u) ==
  IF a # 0 THEN a ELSE IF u # 0 THEN u
  ELSE IF Len(messages) > 0 THEN 1 ELSE 0

\* clean.length > 180 ? clean.slice(0, 177) + "..." : clean
\* a cut that starts at 180 characters already
SummaryCutEarly(chars) ==
  IF Len(chars) >= SummaryMax
  THEN SubSeq(chars, 1, SummaryKeep) \o <<".", ".", ".">>
  ELSE chars

\* clean.length > 180 ? `${clean.slice(0, 177)}...` : clean
SummaryCut(chars) ==
  IF Len(chars) > SummaryMax
  THEN SubSeq(chars, 1, SummaryKeep) \o <<".", ".", ".">>
  ELSE chars

SummaryOf(clean) ==
  IF clean = <<>> THEN NullText ELSE SummaryCut(Chars(clean))

SummaryFrom(messages, best) ==
  IF best = 0 THEN NullText
  ELSE IF messages[best].content = <<>> THEN NullText
  ELSE SummaryOf(Trim(CollapseWs(sanitizeImportedText(messages[best].content))))

deriveSessionSummary(messages) ==
  SummaryFrom(messages,
              BestMessage(messages, FirstWithRole(messages, "ASSISTANT"),
                          FirstWithRole(messages, "USER")))

\* createHash("sha1").update(input).digest("hex"): a tagged, injective image
\* of the input, itself a flat tuple of strings
hashValue(input) == <<"sha1">> \o input

\* a native identifier, as opposed to a derived (hashed) one
NativeId(id) == <<"id", id>>

\* decimal rendering of a small index inside a template string
NumStr(i) == CASE i = 0 -> "0" [] i = 1 -> "1" [] i = 2 -> "2" [] OTHER -> "n"

\* Date.toISOString() and new Date(isoString); no stored cursor value
toISOString(t) == <<"iso", t>>
DateOf(iso) == iso[2]
NoCheckpoint == <<>>

\* ------------------------------------------------------------ mappers
\* a role mapper that knows "assistant" only
mapRoleAssistantOnly(type) ==
  IF type = "assistant" THEN "ASSISTANT" ELSE "USER"

mapClaudeRole(type) ==
  IF type = "assistant" THEN "ASSISTANT"
  ELSE IF type = "system" \/ type = "progress" THEN "TOOL"
  ELSE "USER"

mapClaudePartType(type) ==
  IF type = "text" THEN "TEXT"
  ELSE IF type = "thinking" THEN "REASONING"
  ELSE IF type = "tool_use" \/ type = "tool_result" THEN "TOOL"
  ELSE "OTHER"

mapOpenCodeRole(value) ==
  IF value = "assistant" THEN "ASSISTANT"
  ELSE IF value = "tool" THEN "TOOL"
  ELSE "USER"

mapOpenCodePartType(type) ==
  IF type = "text" THEN "TEXT"
  ELSE IF type = "reasoning" THEN "REASONING"
  ELSE IF type = "tool" THEN "TOOL"
  ELSE IF type = "step-start" THEN "STEP_START"
  ELSE IF type = "step-finish" THEN "STEP_FINISH"
  ELSE IF type = "error" THEN "ERROR"
  ELSE "OTHER"

\* ------------------------------------------------------ adapter helpers
\* texts.join("\n\n")
RECURSIVE JoinBlank(_)
JoinBlank(texts) ==
  IF texts = <<>> THEN <<>>
  ELSE IF Len(texts) = 1 THEN texts[1]
  ELSE texts[1] \o <<"\n", "\n">> \o JoinBlank(Tail(texts))

\* x ?? 0 on a timestamp
TimeOrZero(t) == IF t = NoTs THEN 0 ELSE t

\* Array.prototype.sort with (l, r) => (l.ts ?? 0) - (r.ts ?? 0): stable
RECURSIVE InsertByTime(_, _)
InsertByTime(sorted, x) ==
  IF sorted = <<>> THEN <<x>>
  ELSE IF TimeOrZero(sorted[Len(sorted)].sourceTimestamp) <= TimeOrZero(x.sourceTimestamp)
       THEN Append(sorted, x)
       ELSE Append(InsertByTime(SubSeq(sorted, 1, Len(sorted) - 1), x),
                   sorted[Len(sorted)])

\* the messages left in the order they were read
KeepReadOrder(items) == items

RECURSIVE SortByTime(_)
SortByTime(items) ==
  IF items = <<>> THEN <<>>
  ELSE InsertByTime(SortByTime(SubSeq(items, 1, Len(items) - 1)), items[Len(items)])

\* messages.forEach((message, index) => { message.ordinal = index })
Renumber(items) == [i \in 1..Len(items) |-> [items[i] EXCEPT !.ordinal = i - 1]]

SortAndRenumber(items) == Renumber(SortByTime(items))

\* ---------------------------------------------------- adapter A (Claude)
ClaudeFile == "f1"

extractClaudePartText(item, partType) ==
  IF partType = "TEXT" \/ partType = "REASONING"
  THEN IF item.text = NoText \/ item.text = <<>> THEN NoText
       ELSE sanitizeImportedText(item.text)
  ELSE IF partType = "TOOL"
       THEN IF item.name # None THEN <<"[tool] ", item.name>> ELSE <<item.type>>
       ELSE item.text

\* parts of a list-valued content; the ordinal is the index in the raw list
RECURSIVE ClaudeListParts(_, _, _)
ClaudeListParts(parsed, sessionId, n) ==
  IF n = 0 THEN <<>>
  ELSE LET item == parsed.items[n]
           rest == ClaudeListParts(parsed, sessionId, n - 1)
       IN IF ~item.obj THEN rest
          ELSE LET partType == mapClaudePartType(item.type)
               IN Append(rest,
                    [externalPartId |->
                       hashValue(<<sessionId,
                                   IF parsed.uuid = None THEN "" ELSE parsed.uuid,
                                   "part", NumStr(n - 1)>>),
                     partType |-> partType,
                     text |-> extractClaudePartText(item, partType),
                     sourceTimestamp |-> parsed.ts,
                     ordinal |-> n - 1])

VisibleTexts(parts) ==
  SelectSeq([i \in 1..Len(parts) |-> parts[i]],
            LAMBDA p : p.partType = "TEXT" /\ p.text # NoText /\ p.text # <<>>)

\* the null result of buildClaudeMessage
NoMessage == [externalMessageId |-> <<>>]
IsNoMessage(m) == m.externalMessageId = <<>>

\* parts of the message: one TEXT part for a string content, one part per
\* object item for a list content
ClaudeParts(parsed, sessionId, trimmed) ==
  IF parsed.kind = "str"
  THEN <<[externalPartId |->
            hashValue(<<sessionId,
                        IF parsed.uuid = None THEN "" ELSE parsed.uuid,
                        "text">>),
          partType |-> "TEXT",
          text |-> trimmed,
          sourceTimestamp |-> parsed.ts,
          ordinal |-> 0]>>
  ELSE IF parsed.kind = "list"
       THEN ClaudeListParts(parsed, sessionId, Len(parsed.items))
       ELSE <<>>

\* the visible text parts joined by a blank line
JoinVisible(vis) == JoinBlank([i \in 1..Len(vis) |-> vis[i].text])

ClaudeContent(parsed, trimmed, parts) ==
  IF parsed.kind = "str" THEN trimmed
  ELSE IF parsed.kind = "list" THEN Trim(JoinVisible(VisibleTexts(parts)))
  ELSE <<>>

\* a message record whose derived id hashes the whole content
ClaudeMessageHashAll(parsed, sessionId, filePath, parts, content) ==
  IF content = <<>> THEN [externalMessageId |-> <<>>]
  ELSE [externalMessageId |->
          IF parsed.uuid # None THEN NativeId(parsed.uuid)
          ELSE IF parsed.msgId # None THEN NativeId(parsed.msgId)
          ELSE hashValue(<<sessionId, filePath>> \o Chars(content)),
        role |-> mapClaudeRole(parsed.type),
        content |-> content,
        sourceTimestamp |-> parsed.ts,
        ordinal |-> 0,
        parts |-> parts]

\* a message record built whatever the content
ClaudeMessageAlways(parsed, sessionId, filePath, parts, content) ==
  [externalMessageId |->
     IF parsed.uuid # None THEN NativeId(parsed.uuid)
     ELSE IF parsed.msgId # None THEN NativeId(parsed.msgId)
     ELSE hashValue(<<sessionId, filePath>> \o Slice(Chars(content), 100)),
   role |-> mapClaudeRole(parsed.type),
   content |-> content,
   sourceTimestamp |-> parsed.ts,
   ordinal |-> 0,
   parts |-> parts]

ClaudeMessageRecord(parsed, sessionId, filePath, parts, content) ==
  IF content = <<>> THEN NoMessage
  ELSE [externalMessageId |->
          IF parsed.uuid # None THEN NativeId(parsed.uuid)
          ELSE IF parsed.msgId # None THEN NativeId(parsed.msgId)
          ELSE hashValue(<<sessionId, filePath>> \o Slice(Chars(content), 100)),
        role |-> mapClaudeRole(parsed.type),
        content |-> content,
        sourceTimestamp |-> parsed.ts,
        ordinal |-> 0,
        parts |-> parts]

ClaudeMessageOf(parsed, sessionId, filePath, trimmed, parts) ==
  ClaudeMessageRecord(parsed, sessionId, filePath, parts,
                      ClaudeContent(parsed, trimmed, parts))

ClaudeMessageFrom(parsed, sessionId, filePath, trimmed) ==
  ClaudeMessageOf(parsed, sessionId, filePath, trimmed,
                  ClaudeParts(parsed, sessionId, trimmed))

buildClaudeMessage(parsed, sessionId, filePath) ==
  ClaudeMessageFrom(parsed, sessionId, filePath,
                    sanitizeImportedText(parsed.text))

SessionIndex(sessions, sessionId) ==
  IF \E i \in 1..Len(sessions) : sessions[i].externalSessionId = sessionId
  THEN CHOOSE i \in 1..Len(sessions) : sessions[i].externalSessionId = sessionId
  ELSE 0

\* one line of the log applied to the accumulated scan
\* if (ts && (!maxTimestamp || ts > maxTimestamp)) maxTimestamp = ts
LaterOf(maxTimestamp, ts) ==
  IF ts # NoTs /\ (maxTimestamp = NoTs \/ ts > maxTimestamp)
  THEN ts ELSE maxTimestamp

\* the message of a line joins its session, created on first sight
ClaudeAddMessage(acc, parsed, messageRecord) ==
  IF IsNoMessage(messageRecord)
  THEN [acc EXCEPT !.maxTimestamp = LaterOf(@, parsed.ts)]
  ELSE IF SessionIndex(acc.sessions, parsed.sid) = 0
  THEN [sessions |->
          Append(acc.sessions,
            [externalSessionId |-> parsed.sid,
             title |-> fallbackSessionTitle(messageRecord.content, parsed.sid),
             startedAt |-> parsed.ts,
             lastActivityAt |-> parsed.ts,
             messages |-> <<messageRecord>>]),
        maxTimestamp |-> LaterOf(acc.maxTimestamp, parsed.ts)]
  ELSE [sessions |->
          [acc.sessions EXCEPT ![SessionIndex(acc.sessions, parsed.sid)] =
             [@ EXCEPT
                !.messages = Append(@, messageRecord),
                !.lastActivityAt =
                   IF parsed.ts # NoTs /\ (@ = NoTs \/ parsed.ts > @)
                   THEN parsed.ts ELSE @,
                !.startedAt =
                   IF parsed.ts # NoTs /\ (@ = NoTs \/ parsed.ts < @)
                   THEN parsed.ts ELSE @]],
        maxTimestamp |-> LaterOf(acc.maxTimestamp, parsed.ts)]

\* a line loop in which a line that does not parse ends the scan empty-handed
ClaudeLineFatal(acc, parsed, since) ==
  IF ~parsed.ok THEN [sessions |-> <<>>, maxTimestamp |-> NoTs]
  ELSE IF parsed.sid = None THEN acc
  ELSE IF parsed.ts # NoTs /\ parsed.ts < since THEN acc
  ELSE ClaudeAddMessage(acc, parsed,
                        buildClaudeMessage(parsed, parsed.sid, ClaudeFile))

\* one line of the log applied to the accumulated scan
ClaudeLine(acc, parsed, since) ==
  IF ~parsed.ok \/ parsed.sid = None THEN acc
  ELSE IF parsed.ts # NoTs /\ parsed.ts < since THEN acc
  ELSE ClaudeAddMessage(acc, parsed,
                        buildClaudeMessage(parsed, parsed.sid, ClaudeFile))

RECURSIVE ClaudeLines(_, _, _)
ClaudeLines(lines, n, since) ==
  IF n = 0 THEN [sessions |-> <<>>, maxTimestamp |-> NoTs]
  ELSE ClaudeLine(ClaudeLines(lines, n - 1, since), lines[n], since)

\* the scan of runClaudeSource up to the call of persistSessions
\* session.messages.sort(...) and the renumbering, for every session
SortSessions(read) ==
  [sessions |-> [i \in 1..Len(read.sessions) |->
                   [read.sessions[i] EXCEPT !.messages = SortAndRenumber(@)]],
   maxTimestamp |-> read.maxTimestamp]

\* the scan of runClaudeSource up to the call of persistSessions
ClaudeScan(lines, mtime, since) ==
  SortSessions(IF mtime < since
               THEN [sessions |-> <<>>, maxTimestamp |-> NoTs]
               ELSE ClaudeLines(lines, Len(lines), since))

\* -------------------------------------------------- adapter B (OpenCode)
extractOpenCodePartText(part, partType) ==
  IF partType = "TEXT" \/ partType = "REASONING"
  THEN IF part.text = NoText \/ part.text = <<>> THEN NoText
       ELSE sanitizeImportedText(part.text)
  ELSE IF partType = "TOOL"
       THEN IF part.stateTitle # NoText THEN part.stateTitle
            ELSE IF part.stateOutput # NoText THEN part.stateOutput
            ELSE IF part.tool # None THEN <<part.tool>>
            ELSE <<"tool call">>
       ELSE <<part.type>>

\* parts sorted by (time.start ?? 0), stable
RECURSIVE InsertByStart(_, _)
InsertByStart(sorted, x) ==
  IF sorted = <<>> THEN <<x>>
  ELSE IF TimeOrZero(sorted[Len(sorted)].start) <= TimeOrZero(x.start)
       THEN Append(sorted, x)
       ELSE Append(InsertByStart(SubSeq(sorted, 1, Len(sorted) - 1), x),
                   sorted[Len(sorted)])

RECURSIVE SortByStart(_)
SortByStart(items) ==
  IF items = <<>> THEN <<>>
  ELSE InsertByStart(SortByStart(SubSeq(items, 1, Len(items) - 1)), items[Len(items)])

OpenCodeParts(messageId, rawParts) ==
  LET sortedParts == SortByStart(rawParts)
  IN [i \in 1..Len(sortedParts) |->
        LET part == sortedParts[i]
            partType == mapOpenCodePartType(part.type)
        IN [externalPartId |->
              IF part.id # None THEN NativeId(part.id)
              ELSE hashValue(<<messageId, "part", NumStr(i - 1)>>),
            partType |-> partType,
            text |-> extractOpenCodePartText(part, partType),
            sourceTimestamp |-> part.start,
            ordinal |-> i - 1]]

\* one message file applied to the accumulated message list of a session
\* the TEXT parts with a non-blank text, joined by a blank line
OpenCodeContent(vis) ==
  JoinBlank(SelectSeq([i \in 1..Len(vis) |-> vis[i].text],
                      LAMBDA t : Trim(t) # <<>>))

OpenCodeAddMessage(acc, messageRecord, parts, contentFromText) ==
  IF contentFromText = <<>>
     /\ (messageRecord.summaryTitle = NoText \/ messageRecord.summaryTitle = <<>>)
  THEN [acc EXCEPT !.maxTimestamp = LaterOf(@, messageRecord.created)]
  ELSE [messageItems |->
          Append(acc.messageItems,
            [externalMessageId |-> NativeId(messageRecord.id),
             role |-> mapOpenCodeRole(messageRecord.role),
             content |-> IF contentFromText # <<>> THEN contentFromText
                         ELSE messageRecord.summaryTitle,
             sourceTimestamp |-> messageRecord.created,
             ordinal |-> Len(acc.messageItems),
             parts |-> parts]),
        maxTimestamp |-> LaterOf(acc.maxTimestamp, messageRecord.created)]

OpenCodeWithParts(acc, messageRecord, parts) ==
  OpenCodeAddMessage(acc, messageRecord, parts,
                     OpenCodeContent(VisibleTexts(parts)))

\* one message file applied to the accumulated message list of a session
OpenCodeMessage(acc, messageRecord, since) ==
  IF messageRecord.id = None THEN acc
  ELSE IF messageRecord.created # NoTs /\ messageRecord.created < since THEN acc
  ELSE OpenCodeWithParts(acc, messageRecord,
                         OpenCodeParts(messageRecord.id, messageRecord.parts))

RECURSIVE OpenCodeMessages(_, _, _, _)
OpenCodeMessages(files, n, since, maxTs) ==
  IF n = 0 THEN [messageItems |-> <<>>, maxTimestamp |-> maxTs]
  ELSE OpenCodeMessage(OpenCodeMessages(files, n - 1, since, maxTs), files[n], since)

\* one session file applied to the accumulated scan
\* lastUpdated = updated ?? created
LastUpdated(sessionRecord) ==
  IF sessionRecord.updated # NoTs THEN sessionRecord.updated
  ELSE sessionRecord.created

OpenCodeAddSession(acc, sessionRecord, maxTimestamp, messageItems) ==
  [sessions |->
     Append(acc.sessions,
       [externalSessionId |-> sessionRecord.id,
        title |-> IF sessionRecord.title # NoText THEN sessionRecord.title
                  ELSE fallbackSessionTitle(
                         IF messageItems = <<>> THEN <<>>
                         ELSE messageItems[1].content,
                         sessionRecord.id),
        startedAt |-> sessionRecord.created,
        lastActivityAt |-> LastUpdated(sessionRecord),
        messages |-> messageItems]),
   maxTimestamp |-> maxTimestamp]

OpenCodeRead(acc, sessionRecord, read) ==
  OpenCodeAddSession(acc, sessionRecord, read.maxTimestamp,
                     SortAndRenumber(read.messageItems))

\* one session file applied to the accumulated scan
OpenCodeSession(acc, sessionRecord, since) ==
  IF sessionRecord.id = None THEN acc
  ELSE IF LastUpdated(sessionRecord) # NoTs /\ LastUpdated(sessionRecord) < since
  THEN acc
  ELSE OpenCodeRead(acc, sessionRecord,
                    OpenCodeMessages(sessionRecord.messages,
                                     Len(sessionRecord.messages), since,
                                     LaterOf(acc.maxTimestamp,
                                             LastUpdated(sessionRecord))))

RECURSIVE OpenCodeSessions(_, _, _)
OpenCodeSessions(files, n, since) ==
  IF n = 0 THEN [sessions |-> <<>>, maxTimestamp |-> NoTs]
  ELSE OpenCodeSession(OpenCodeSessions(files, n - 1, since), files[n], since)

\* the scan of runOpenCodeSource up to the call of persistSessions
OpenCodeScan(files, since) == OpenCodeSessions(files, Len(files), since)

\* new Date(Date.now() - lookbackDays * 24 * 60 * 60 * 1000)
LookbackStart(nowTime, lookbackDays) == nowTime - lookbackDays

\* the checkpoint alone, whenever there is one
SinceCheckpoint(lastCheckpoint, nowTime, lookbackDays) ==
  IF lastCheckpoint # NoCheckpoint THEN DateOf(lastCheckpoint)
  ELSE nowTime - lookbackDays

\* the lower bound of a scan: the checkpoint when later than the lookback start
ScanSince(lastCheckpoint, nowTime, lookbackDays) ==
  IF lastCheckpoint # NoCheckpoint
     /\ DateOf(lastCheckpoint) > LookbackStart(nowTime, lookbackDays)
  THEN DateOf(lastCheckpoint)
  ELSE LookbackStart(nowTime, lookbackDays)

\* ------------------------------------------------------------- the store
\* prisma update data: an undefined value leaves the column as it is
KeepTs(old, new) == IF new = NoTs THEN old ELSE new
KeepText(old, new) == IF new = NoText THEN old ELSE new

\* index of the first row of a set of hits, 0 when there is none
FirstOf(hits) ==
  IF hits = {} THEN 0 ELSE CHOOSE i \in hits : \A j \in hits : i <= j

\* a lookup that never finds the row
NoSessionKey(rows, sourceToolId, ext) == 0

\* prisma.session.upsert by (sourceToolId, externalSessionId)
SessionKeyIndex(rows, sourceToolId, ext) ==
  FirstOf({i \in 1..Len(rows) : rows[i].sourceToolId = sourceToolId /\ rows[i].externalSessionId = ext})

UpsertSession(rows, in, sourceToolId, workspaceId, importSource, t) ==
  LET k == SessionKeyIndex(rows, sourceToolId, in.externalSessionId)
  IN IF k # 0
     THEN [rows |-> [rows EXCEPT ![k] =
                       [@ EXCEPT !.title = in.title,
                                 !.summary = in.summary,
                                 !.startedAt = KeepTs(@, in.startedAt),
                                 !.lastActivityAt = KeepTs(@, in.lastActivityAt),
                                 !.importSource = importSource,
                                 !.importedAt = t]],
           id |-> k]
     ELSE [rows |-> Append(rows,
                      [workspaceId |-> workspaceId,
                       sourceToolId |-> sourceToolId,
                       externalSessionId |-> in.externalSessionId,
                       title |-> in.title,
                       summary |-> in.summary,
                       startedAt |-> in.startedAt,
                       lastActivityAt |-> in.lastActivityAt,
                       importSource |-> importSource,
                       importedAt |-> t]),
           id |-> Len(rows) + 1]

\* prisma.message.upsert by (sessionId, externalMessageId)
MessageKeyIndex(rows, sessionId, ext) ==
  FirstOf({i \in 1..Len(rows) : rows[i].sessionId = sessionId /\ rows[i].externalMessageId = ext})

UpsertMessage(rows, in, sessionId) ==
  LET k == MessageKeyIndex(rows, sessionId, in.externalMessageId)
  IN IF k # 0
     THEN [rows |-> [rows EXCEPT ![k] =
                       [@ EXCEPT !.role = in.role,
                                 !.content = in.content,
                                 !.sourceTimestamp = KeepTs(@, in.sourceTimestamp),
                                 !.ordinal = in.ordinal]],
           id |-> k]
     ELSE [rows |-> Append(rows,
                      [sessionId |-> sessionId,
                       externalMessageId |-> in.externalMessageId,
                       role |-> in.role,
                       content |-> in.content,
                       sourceTimestamp |-> in.sourceTimestamp,
                       ordinal |-> in.ordinal]),
           id |-> Len(rows) + 1]

\* a lookup that never finds the row
NoPartKey(rows, messageId, ext) == 0

\* prisma.messagePart.upsert by (messageId, externalPartId)
PartKeyIndex(rows, messageId, ext) ==
  FirstOf({i \in 1..Len(rows) : rows[i].messageId = messageId /\ rows[i].externalPartId = ext})

UpsertPart(rows, in, sessionId, messageId) ==
  LET k == PartKeyIndex(rows, messageId, in.externalPartId)
  IN IF k # 0
     THEN [rows EXCEPT ![k] =
             [@ EXCEPT !.partType = in.partType,
                       !.text = KeepText(@, in.text),
                       !.sourceTimestamp = KeepTs(@, in.sourceTimestamp),
                       !.ordinal = in.ordinal,
                       !.sessionId = sessionId]]
     ELSE Append(rows,
            [sessionId |-> sessionId,
             messageId |-> messageId,
             externalPartId |-> in.externalPartId,
             partType |-> in.partType,
             text |-> in.text,
             sourceTimestamp |-> in.sourceTimestamp,
             ordinal |-> in.ordinal])

\* ------------------------------------------------------- persistSessions
\* The store calls persistSessions makes for its input, in order: one per
\* session that is not skipped, then per message, then per part.
RECURSIVE MessageOps(_, _)
MessageOps(msgs, n) ==
  IF n = 0 THEN <<>>
  ELSE MessageOps(msgs, n - 1)
       \o <<[kind |-> "message", in |-> [msgs[n] EXCEPT !.parts = <<>>]]>>
       \o [i \in 1..Len(msgs[n].parts) |-> [kind |-> "part", in |-> msgs[n].parts[i]]]

\* no session is skipped
NeverSkipped(sessionInput) == FALSE

SessionSkipped(sessionInput) ==
  sessionInput.externalSessionId = None \/ Len(sessionInput.messages) = 0

RECURSIVE PersistOps(_, _)
PersistOps(sessionInputs, n) ==
  IF n = 0 THEN <<>>
  ELSE PersistOps(sessionInputs, n - 1)
       \o (IF SessionSkipped(sessionInputs[n]) THEN <<>>
           ELSE <<[kind |-> "session",
                   in |-> [externalSessionId |-> sessionInputs[n].externalSessionId,
                           title |-> sessionInputs[n].title,
                           summary |-> deriveSessionSummary(sessionInputs[n].messages),
                           startedAt |-> sessionInputs[n].startedAt,
                           lastActivityAt |-> sessionInputs[n].lastActivityAt]]>>
                \o MessageOps(sessionInputs[n].messages,
                              Len(sessionInputs[n].messages)))

\* one store call of persistSessions applied to the three tables; w carries
\* the tables, the ids of the session and message rows last resolved and the
\* three counters
PersistOne(w, op, sourceToolId, workspaceId, importSource, t) ==
  IF op.kind = "session"
  THEN LET r == UpsertSession(w.sessions, op.in, sourceToolId, workspaceId,
                              importSource, t)
       IN [w EXCEPT !.sessions = r.rows, !.sess = r.id,
                    !.upsertedSessions = @ + 1]
  ELSE IF op.kind = "message"
  THEN LET r == UpsertMessage(w.messages, op.in, w.sess)
       IN [w EXCEPT !.messages = r.rows, !.msg = r.id,
                    !.upsertedMessages = @ + 1]
  ELSE [w EXCEPT !.parts = UpsertPart(w.parts, op.in, w.sess, w.msg),
                 !.upsertedParts = @ + 1]

RECURSIVE PersistAll(_, _, _, _, _, _, _)
PersistAll(w, ops, n, sourceToolId, workspaceId, importSource, t) ==
  IF n = 0 THEN w
  ELSE PersistOne(PersistAll(w, ops, n - 1, sourceToolId, workspaceId,
                             importSource, t),
                  ops[n], sourceToolId, workspaceId, importSource, t)

\* ------------------------------------------------------------- the state
VARIABLES
  now,          \* the wall clock
  claudeLog,    \* lines of the Claude .jsonl file, in file order
  claudeMtime,  \* modification time of that file
  ocFiles,      \* OpenCode session files, each with its message and part files
  sources,      \* IngestionSource rows, in creation order
  runs,         \* IngestionRun rows
  errors,       \* IngestionError rows
  checkpoints,  \* IngestionCheckpoint rows
  tools,        \* SourceTool rows
  workspaces,   \* Workspace rows
  sessions,     \* Session rows
  messages,     \* Message rows
  parts,        \* MessagePart rows
  cycles,       \* the calls of runIngestionCycle, by number
  watcher,      \* the watcher process: "off", "starting" or "armed"
  started,      \* cycles started so far
  faults,       \* failures injected so far
  tasks,        \* Task rows
  tags,         \* Tag rows
  sessionTags,  \* SessionTag rows
  artifacts,    \* Artifact rows
  metricSnapshots, \* MetricSnapshot rows
  tx,           \* the call of ingestCanonicalBundle in progress
  reply,        \* what the last call of ingestCanonicalBundle returned or threw
  calls,        \* calls of ingestCanonicalBundle so far
  released,     \* prisma.$disconnect() of the watcher has resolved
  arg,          \* the argument a utility function is applied to
  res           \* its result

envVars == <<now, claudeLog, claudeMtime, ocFiles>>
configVars == <<sources, checkpoints>>
logVars == <<runs, errors>>
dataVars == <<tools, workspaces, sessions, messages, parts>>
procVars == <<cycles, watcher, started, faults>>
manualVars == <<tasks, tags, sessionTags, artifacts, metricSnapshots, tx,
                reply, calls>>
pureVars == <<arg, res>>
\* what the ingestion cycle and its environment never touch
sideVars == <<manualVars, released, pureVars>>
vars == <<now, claudeLog, claudeMtime, ocFiles, sources, runs, errors,
          checkpoints, tools, workspaces, sessions, messages, parts,
          cycles, watcher, started, faults, tasks, tags, sessionTags,
          artifacts, metricSnapshots, tx, reply, calls, released, arg, res>>

CycleIds == 1..MaxCycles

\* what a call of ingestCanonicalBundle returned (status "ok"), or that it
\* threw: on the schema ("rejected") or inside the transaction ("error",
\* with the number of rows the transaction had written)
Reply(status, cause, sessionId, deduplicated, undone) ==
  [status |-> status, cause |-> cause, sessionId |-> sessionId,
   deduplicated |-> deduplicated, undone |-> undone]

\* no utility function applied
NoArg == [kind |-> "none"]
NoRes == [fn |-> "none"]

\* no call in progress; no call made yet
NoTx == [pc |-> "idle"]
NoReply == Reply("none", None, 0, FALSE, 0)

IdleCycle ==
  [proc |-> "none", mode |-> "none", pc |-> "idle", srcs |-> <<>>, idx |-> 0,
   run |-> 0, since |-> NoTs, ops |-> <<>>, tool |-> 0, ws |-> 0,
   sess |-> 0, msg |-> 0, scannedSessions |-> 0, upsertedSessions |-> 0,
   upsertedMessages |-> 0, upsertedParts |-> 0, maxTimestamp |-> NoTs,
   err |-> None]

\* positions of a cycle at which it is executing
ActivePcs ==
  {"start_run", "adapter", "ws_create", "persist", "success", "checkpoint",
   "catch_run", "catch_err", "catch_src"}

Active(c) == cycles[c].pc \in ActivePcs

Init ==
  /\ now = 1
  /\ claudeLog = <<>>
  /\ claudeMtime = 1
  /\ ocFiles = <<>>
  /\ sources = <<>>
  /\ runs = <<>>
  /\ errors = <<>>
  /\ checkpoints = <<>>
  /\ tools = <<>>
  /\ workspaces = <<>>
  /\ sessions = <<>>
  /\ messages = <<>>
  /\ parts = <<>>
  /\ cycles = [c \in CycleIds |-> IdleCycle]
  /\ watcher = "off"
  /\ started = 0
  /\ faults = 0
  /\ tasks = <<>>
  /\ tags = <<>>
  /\ sessionTags = <<>>
  /\ artifacts = <<>>
  /\ metricSnapshots = <<>>
  /\ tx = NoTx
  /\ reply = NoReply
  /\ calls = 0
  /\ released = FALSE
  /\ arg = NoArg
  /\ res = NoRes

\* a cycle lasts far less than one unit of time (LookbackDays counts days),
\* and a file written while a cycle runs is seen by the next scan exactly as
\* if it had been written after the cycle: the environment moves between
\* cycles
NoCycleRunning == \A c \in CycleIds : ~Active(c)

\* -------------------------------------------------------- the environment
AdvanceTime ==
  /\ NoCycleRunning
  /\ now < MaxTime
  /\ now' = now + 1
  /\ UNCHANGED <<sideVars, claudeLog, claudeMtime, ocFiles, configVars, logVars,
                 dataVars, procVars>>

TextEvent(uuid, ts) ==
  [ok |-> TRUE, sid |-> "s1", uuid |-> uuid, msgId |-> None, ts |-> ts,
   type |-> "user", kind |-> "str", text |-> <<"a">>, items |-> <<>>]

ListEvent(uuid, ts) ==
  [ok |-> TRUE, sid |-> "s1", uuid |-> uuid, msgId |-> None, ts |-> ts,
   type |-> "assistant", kind |-> "list", text |-> <<>>,
   items |-> <<[obj |-> TRUE, type |-> "text", text |-> <<"b">>, name |-> None],
               [obj |-> TRUE, type |-> "tool_use", text |-> NoText,
                name |-> "Bash"]>>]

\* a line whose whole text is harness markup
MarkupEvent(uuid, ts) ==
  [TextEvent(uuid, ts) EXCEPT
     !.text = <<"<system-reminder>", "x", "</SYSTEM-REMINDER>">>]

\* the lines the environment may append at time t; a uuid is written once
ClaudeEvents(t) ==
  {TextEvent("m1", t), ListEvent("m2", t), MarkupEvent("m3", NoTs)}

ClaudeAppend ==
  /\ NoCycleRunning
  /\ Len(claudeLog) < MaxClaudeEvents
  /\ \E e \in ClaudeEvents(now) :
       /\ \A i \in 1..Len(claudeLog) : claudeLog[i].uuid # e.uuid
       /\ claudeLog' = Append(claudeLog, e)
  /\ claudeMtime' = now
  /\ UNCHANGED <<sideVars, now, ocFiles, configVars, logVars, dataVars, procVars>>

OcTextPart(start) ==
  [id |-> "p1", type |-> "text", text |-> <<"d">>, start |-> start,
   stateTitle |-> NoText, stateOutput |-> NoText, tool |-> None]

OcToolPart(start) ==
  [id |-> None, type |-> "tool", text |-> NoText, start |-> start,
   stateTitle |-> NoText, stateOutput |-> NoText, tool |-> "bash"]

\* the message files the environment may write at time t
OcMessages(t) ==
  {[id |-> "x1", created |-> t, role |-> "assistant", summaryTitle |-> NoText,
    parts |-> <<OcToolPart(t), OcTextPart(NoTs)>>],
   [id |-> "x2", created |-> t, role |-> "user", summaryTitle |-> NoText,
    parts |-> <<>>]}

OcMessageCount ==
  IF ocFiles = <<>> THEN 0 ELSE Len(ocFiles[1].messages)

\* OpenCode writes the session file first, message files later
OcWriteSession ==
  /\ NoCycleRunning
  /\ ocFiles = <<>>
  /\ ocFiles' = <<[id |-> "o1", created |-> now, updated |-> now,
                   title |-> NoText, messages |-> <<>>]>>
  /\ UNCHANGED <<sideVars, now, claudeLog, claudeMtime, configVars, logVars, dataVars,
                 procVars>>

OcWriteMessage ==
  /\ NoCycleRunning
  /\ ocFiles # <<>>
  /\ OcMessageCount < MaxOcMessages
  /\ \E m \in OcMessages(now) :
       ocFiles' = [ocFiles EXCEPT ![1] =
                     [@ EXCEPT !.messages = Append(@, m), !.updated = now]]
  /\ UNCHANGED <<sideVars, now, claudeLog, claudeMtime, configVars, logVars, dataVars,
                 procVars>>

\* an operator registers, before the first cycle, a source of a type that no
\* adapter supports
AddSource ==
  /\ started = 0
  /\ sources = <<>>
  /\ sources' = <<[key |-> "custom", type |-> "OTHER", isEnabled |-> TRUE,
                  lookbackDays |-> LookbackDays, lastRunAt |-> NoTs,
                  lastSuccessAt |-> NoTs, lastErrorAt |-> NoTs,
                  statusMessage |-> <<>>]>>
  /\ UNCHANGED <<sideVars, envVars, checkpoints, logVars, dataVars, procVars>>

\* ---------------------------------------------------- configuration rows
\* a lookup that never finds the row
NoSourceKey(rows, key) == 0

SourceKeyIndex(rows, key) == FirstOf({i \in 1..Len(rows) : rows[i].key = key})

\* prisma.ingestionSource.upsert by key: the update branch rewrites rootPath
\* and lookbackDays only
UpsertSource(rows, key, type) ==
  LET k == SourceKeyIndex(rows, key)
  IN IF k # 0
     THEN [rows EXCEPT ![k] = [@ EXCEPT !.lookbackDays = LookbackDays]]
     ELSE Append(rows,
            [key |-> key, type |-> type, isEnabled |-> TRUE,
             lookbackDays |-> LookbackDays, lastRunAt |-> NoTs,
             lastSuccessAt |-> NoTs, lastErrorAt |-> NoTs,
             statusMessage |-> <<>>])

ensureDefaultIngestionSources(rows) ==
  UpsertSource(UpsertSource(rows, "claude-default", "CLAUDE"),
               "opencode-default", "OPENCODE")

\* findMany({ where: { isEnabled: true }, orderBy: { createdAt: "asc" } })
EnabledSources(rows) ==
  SelectSeq([i \in 1..Len(rows) |->
               [id |-> i, type |-> rows[i].type, isEnabled |-> rows[i].isEnabled,
                lookbackDays |-> rows[i].lookbackDays]],
            LAMBDA r : r.isEnabled)

CheckpointIndex(rows, sourceId, cursorKey) ==
  FirstOf({i \in 1..Len(rows) : rows[i].sourceId = sourceId /\ rows[i].cursorKey = cursorKey})

getCheckpoint(rows, sourceId, cursorKey) ==
  LET k == CheckpointIndex(rows, sourceId, cursorKey)
  IN IF k = 0 THEN NoCheckpoint ELSE rows[k].cursorValue

setCheckpoint(rows, sourceId, cursorKey, cursorValue) ==
  LET k == CheckpointIndex(rows, sourceId, cursorKey)
  IN IF k # 0 THEN [rows EXCEPT ![k] = [@ EXCEPT !.cursorValue = cursorValue]]
     ELSE Append(rows, [sourceId |-> sourceId, cursorKey |-> cursorKey,
                        cursorValue |-> cursorValue])

ToolIndex(rows, slug) == FirstOf({i \in 1..Len(rows) : rows[i].slug = slug})

\* ensureSourceTool: prisma.sourceTool.upsert by slug
ensureSourceTool(rows, slug, name) ==
  LET k == ToolIndex(rows, slug)
  IN IF k # 0
     THEN [rows |-> [rows EXCEPT ![k] = [@ EXCEPT !.name = name]], id |-> k]
     ELSE [rows |-> Append(rows, [slug |-> slug, name |-> name]),
           id |-> Len(rows) + 1]

ToolSlug(type) == IF type = "CLAUDE" THEN "claude-code" ELSE "opencode"
ToolName(type) == IF type = "CLAUDE" THEN "Claude Code" ELSE "OpenCode"
ImportSource(type) == IF type = "CLAUDE" THEN "claude-watcher" ELSE "opencode-watcher"

\* ----------------------------------------------------------- processes
\* a cycle that has returned, or whose process is gone
Ended(cy, how) == [IdleCycle EXCEPT !.proc = cy.proc, !.mode = cy.mode, !.pc = how]

CurrentSource(cy) == cy.srcs[cy.idx]

\* a loop that a caught error ends
AbortAfterFailure(cy) ==
  IF cy.err # None THEN Ended(cy, "done")
  ELSE IF cy.idx < Len(cy.srcs)
  THEN [IdleCycle EXCEPT !.proc = cy.proc, !.mode = cy.mode, !.srcs = cy.srcs,
                         !.idx = cy.idx + 1, !.pc = "start_run"]
  ELSE Ended(cy, "done")

\* the end of one iteration of the for loop over the sources
NextSource(cy) ==
  IF cy.idx < Len(cy.srcs)
  THEN [IdleCycle EXCEPT !.proc = cy.proc, !.mode = cy.mode, !.srcs = cy.srcs,
                         !.idx = cy.idx + 1, !.pc = "start_run"]
  ELSE Ended(cy, "done")

\* runIngestionCycle up to its for loop: ensureDefaultIngestionSources, then
\* the findMany of the enabled sources
BeginCycle(c, proc, mode) ==
  /\ sources' = ensureDefaultIngestionSources(sources)
  /\ cycles' = [cycles EXCEPT ![c] =
                  [IdleCycle EXCEPT !.proc = proc, !.mode = mode,
                                    !.srcs = EnabledSources(sources'),
                                    !.idx = 1, !.pc = "start_run"]]

\* main() of the watcher sets the interval once its first tick has returned
WatcherAfter(cy) ==
  IF cy.pc = "done" /\ cy.proc = "watcher" /\ watcher = "starting"
  THEN "armed" ELSE watcher

\* bun run ingest:watch: main() awaits the first tick
StartWatcher ==
  /\ watcher = "off"
  /\ started < MaxCycles
  /\ started' = started + 1
  /\ BeginCycle(started + 1, "watcher", "poll")
  /\ watcher' = "starting"
  /\ UNCHANGED <<sideVars, envVars, checkpoints, logVars, dataVars, faults>>

\* setInterval(() => { void tick() }, POLL_INTERVAL_MS): nothing looks at the
\* ticks still in flight
TimerFire ==
  /\ watcher = "armed"
  /\ started < MaxCycles
  /\ started' = started + 1
  /\ BeginCycle(started + 1, "watcher", "poll")
  /\ UNCHANGED <<sideVars, envVars, checkpoints, logVars, dataVars, watcher, faults>>

\* bun run ingest:backfill
StartBackfill ==
  /\ started < MaxCycles
  /\ started' = started + 1
  /\ BeginCycle(started + 1, "backfill", "backfill")
  /\ UNCHANGED <<sideVars, envVars, checkpoints, logVars, dataVars, watcher, faults>>

\* the watcher process is killed, or dies on an error thrown outside the try
\* block: the interval is gone and every tick in flight is abandoned
StopWatcher ==
  /\ watcher # "off"
  /\ faults < MaxFaults
  /\ faults' = faults + 1
  /\ watcher' = "off"
  /\ cycles' = [c \in CycleIds |->
                  IF cycles[c].proc = "watcher" /\ Active(c)
                  THEN Ended(cycles[c], "dead") ELSE cycles[c]]
  /\ UNCHANGED <<sideVars, envVars, configVars, logVars, dataVars, started>>

\* the backfill process dies while its cycle runs
StopBackfill(c) ==
  /\ cycles[c].proc = "backfill"
  /\ Active(c)
  /\ faults < MaxFaults
  /\ faults' = faults + 1
  /\ cycles' = [cycles EXCEPT ![c] = Ended(@, "dead")]
  /\ UNCHANGED <<sideVars, envVars, configVars, logVars, dataVars, watcher, started>>

\* ---------------------------------------------------- runIngestionCycle
\* prisma.ingestionRun.create({ status: RUNNING }), then
\* prisma.ingestionSource.update({ lastRunAt, statusMessage: "Running ..." })
StartRun(c) ==
  /\ cycles[c].pc = "start_run"
  /\ runs' = Append(runs,
               [sourceId |-> CurrentSource(cycles[c]).id,
                mode |-> cycles[c].mode,
                status |-> "RUNNING",
                scannedSessions |-> 0, upsertedSessions |-> 0,
                upsertedMessages |-> 0, upsertedParts |-> 0,
                errorCount |-> 0, note |-> None])
  /\ sources' = [sources EXCEPT ![CurrentSource(cycles[c]).id] =
                   [@ EXCEPT !.lastRunAt = now,
                             !.statusMessage = <<"Running", cycles[c].mode>>]]
  /\ cycles' = [cycles EXCEPT ![c] = [@ EXCEPT !.run = Len(runs) + 1,
                                               !.pc = "adapter"]]
  /\ UNCHANGED <<sideVars, envVars, checkpoints, errors, dataVars, watcher, started, faults>>

\* an error that sends the loop straight on to the next source
ThrowOnward(cy, message) == NextSource(cy)

\* an error thrown inside the try block
Throw(cy, message) ==
  [cy EXCEPT !.pc = "catch_run", !.err = message, !.ops = <<>>]

\* throw new Error("Unsupported ingestion source type")
Unsupported(c) ==
  /\ cycles[c].pc = "adapter"
  /\ CurrentSource(cycles[c]).type \notin {"CLAUDE", "OPENCODE"}
  /\ cycles' = [cycles EXCEPT ![c] = Throw(@, "unsupported")]
  /\ UNCHANGED <<sideVars, envVars, configVars, logVars, dataVars, watcher, started, faults>>

\* what the adapter of a source type reads from disk
Scan(type, since) ==
  IF type = "CLAUDE" THEN ClaudeScan(claudeLog, claudeMtime, since)
  ELSE OpenCodeScan(ocFiles, since)

\* where persistSessions starts: with its first store call, or past the loop
EnterPersist(cy) ==
  [cy EXCEPT !.pc = IF cy.ops = <<>> THEN "success" ELSE "persist"]

\* what a finished scan leaves to the rest of the iteration
Scanned(cy, since, scan, toolId) ==
  [cy EXCEPT !.since = since,
             !.ops = PersistOps(scan.sessions, Len(scan.sessions)),
             !.scannedSessions = Len(scan.sessions),
             !.maxTimestamp = scan.maxTimestamp,
             !.tool = toolId]

\* ensureWorkspace, first half: prisma.workspace.findFirst
FoundWorkspace(cy) ==
  IF workspaces # <<>> THEN EnterPersist([cy EXCEPT !.ws = 1])
  ELSE [cy EXCEPT !.pc = "ws_create"]

ScanSource(cy, since, toolId) ==
  FoundWorkspace(Scanned(cy, since, Scan(CurrentSource(cy).type, since), toolId))

\* runClaudeSource / runOpenCodeSource from getCheckpoint to the first half
\* of ensureWorkspace: the checkpoint and the files are read, the sessions
\* are rebuilt in memory, the source tool is upserted and the workspace
\* looked up
AdapterScan(c) ==
  /\ cycles[c].pc = "adapter"
  /\ CurrentSource(cycles[c]).type \in {"CLAUDE", "OPENCODE"}
  /\ LET src == CurrentSource(cycles[c])
         tool == ensureSourceTool(tools, ToolSlug(src.type), ToolName(src.type))
     IN /\ tools' = tool.rows
        /\ cycles' = [cycles EXCEPT ![c] =
                        ScanSource(@,
                                   ScanSince(getCheckpoint(checkpoints, src.id,
                                                           "lastTimestamp"),
                                             now, src.lookbackDays),
                                   tool.id)]
  /\ UNCHANGED <<sideVars, envVars, configVars, logVars, workspaces, sessions, messages,
                 parts, watcher, started, faults>>

\* stat() or readFile() of runClaudeSource rejects (the file went away
\* between the listing and the read)
FsFail(c) ==
  /\ cycles[c].pc = "adapter"
  /\ CurrentSource(cycles[c]).type = "CLAUDE"
  /\ claudeLog # <<>>
  /\ faults < MaxFaults
  /\ faults' = faults + 1
  /\ cycles' = [cycles EXCEPT ![c] = Throw(@, "fs")]
  /\ UNCHANGED <<sideVars, envVars, configVars, logVars, dataVars, watcher, started>>

\* ensureWorkspace, second half: prisma.workspace.create; the slug is unique
CreateWorkspace(c) ==
  /\ cycles[c].pc = "ws_create"
  /\ IF \E i \in 1..Len(workspaces) : workspaces[i].slug = "default"
     THEN /\ cycles' = [cycles EXCEPT ![c] = Throw(@, "unique")]
          /\ UNCHANGED workspaces
     ELSE /\ workspaces' = Append(workspaces, [name |-> "Default", slug |-> "default"])
          /\ cycles' = [cycles EXCEPT ![c] =
                          EnterPersist([@ EXCEPT !.ws = Len(workspaces) + 1])]
  /\ UNCHANGED <<sideVars, envVars, configVars, logVars, tools, sessions, messages, parts,
                 watcher, started, faults>>

\* the next store call of persistSessions
\* the store and the counters of a cycle, as persistSessions sees them
PersistView(cy) ==
  [sessions |-> sessions, messages |-> messages, parts |-> parts,
   sess |-> cy.sess, msg |-> cy.msg,
   upsertedSessions |-> cy.upsertedSessions,
   upsertedMessages |-> cy.upsertedMessages,
   upsertedParts |-> cy.upsertedParts]

Persisted(cy, w) ==
  [cy EXCEPT !.ops = Tail(cy.ops),
             !.sess = w.sess, !.msg = w.msg,
             !.upsertedSessions = w.upsertedSessions,
             !.upsertedMessages = w.upsertedMessages,
             !.upsertedParts = w.upsertedParts,
             !.pc = IF Tail(cy.ops) = <<>> THEN "success" ELSE "persist"]

PersistWrite(c, w) ==
  /\ sessions' = w.sessions
  /\ messages' = w.messages
  /\ parts' = w.parts
  /\ cycles' = [cycles EXCEPT ![c] = Persisted(@, w)]

\* the next store call of persistSessions
PersistStep(c) ==
  /\ cycles[c].pc = "persist"
  /\ PersistWrite(c, PersistOne(PersistView(cycles[c]), Head(cycles[c].ops),
                                cycles[c].tool, cycles[c].ws,
                                ImportSource(CurrentSource(cycles[c]).type), now))
  /\ UNCHANGED <<sideVars, envVars, configVars, logVars, tools, workspaces, watcher,
                 started, faults>>

\* prisma.ingestionRun.update({ status: SUCCESS, counts }), then
\* prisma.ingestionSource.update({ lastSuccessAt, statusMessage })
MarkSuccess(c) ==
  /\ cycles[c].pc = "success"
  /\ runs' = [runs EXCEPT ![cycles[c].run] =
                [@ EXCEPT !.status = "SUCCESS",
                          !.scannedSessions = cycles[c].scannedSessions,
                          !.upsertedSessions = cycles[c].upsertedSessions,
                          !.upsertedMessages = cycles[c].upsertedMessages,
                          !.upsertedParts = cycles[c].upsertedParts]]
  /\ sources' = [sources EXCEPT ![CurrentSource(cycles[c]).id] =
                   [@ EXCEPT !.lastSuccessAt = now,
                             !.statusMessage =
                                <<"Success", cycles[c].upsertedSessions,
                                  cycles[c].upsertedMessages>>]]
  /\ LET nxt == IF cycles[c].maxTimestamp # NoTs
                THEN [cycles[c] EXCEPT !.pc = "checkpoint"]
                ELSE NextSource(cycles[c])
     IN /\ cycles' = [cycles EXCEPT ![c] = nxt]
        /\ watcher' = WatcherAfter(nxt)
  /\ UNCHANGED <<sideVars, envVars, checkpoints, errors, dataVars, started, faults>>

\* if (result.maxTimestamp) await setCheckpoint(..., toISOString())
WriteCheckpoint(c) ==
  /\ cycles[c].pc = "checkpoint"
  /\ checkpoints' = setCheckpoint(checkpoints, CurrentSource(cycles[c]).id,
                                  "lastTimestamp",
                                  toISOString(cycles[c].maxTimestamp))
  /\ LET nxt == NextSource(cycles[c])
     IN /\ cycles' = [cycles EXCEPT ![c] = nxt]
        /\ watcher' = WatcherAfter(nxt)
  /\ UNCHANGED <<sideVars, envVars, sources, logVars, dataVars, started, faults>>

\* a store call inside the try block rejects
StoreFailPcs == {"adapter", "ws_create", "persist", "success", "checkpoint"}

StoreFail(c) ==
  /\ cycles[c].pc \in StoreFailPcs
  /\ CurrentSource(cycles[c]).type \in {"CLAUDE", "OPENCODE"}
  /\ faults < MaxFaults
  /\ faults' = faults + 1
  /\ cycles' = [cycles EXCEPT ![c] = Throw(@, "store")]
  /\ UNCHANGED <<sideVars, envVars, configVars, logVars, dataVars, watcher, started>>

\* catch: prisma.ingestionRun.update({ status: FAILED, errorCount: 1, note })
CatchRun(c) ==
  /\ cycles[c].pc = "catch_run"
  /\ runs' = [runs EXCEPT ![cycles[c].run] =
                [@ EXCEPT !.status = "FAILED", !.errorCount = 1,
                          !.note = cycles[c].err]]
  /\ cycles' = [cycles EXCEPT ![c] = [@ EXCEPT !.pc = "catch_err"]]
  /\ UNCHANGED <<sideVars, envVars, configVars, errors, dataVars, watcher, started, faults>>

\* a catch block that records no error entry
CatchErrorOmitted(c) ==
  /\ cycles[c].pc = "catch_err"
  /\ cycles' = [cycles EXCEPT ![c] = [@ EXCEPT !.pc = "catch_src"]]
  /\ UNCHANGED <<sideVars, envVars, configVars, logVars, dataVars, watcher,
                 started, faults>>

\* catch: prisma.ingestionError.create
CatchError(c) ==
  /\ cycles[c].pc = "catch_err"
  /\ errors' = Append(errors,
                 [sourceId |-> CurrentSource(cycles[c]).id,
                  runId |-> cycles[c].run,
                  code |-> "INGESTION_FAILURE",
                  message |-> cycles[c].err])
  /\ cycles' = [cycles EXCEPT ![c] = [@ EXCEPT !.pc = "catch_src"]]
  /\ UNCHANGED <<sideVars, envVars, configVars, runs, dataVars, watcher, started, faults>>

\* a catch block that also moves the checkpoint to the time of the failure
CatchSourceAdvancing(c) ==
  /\ cycles[c].pc = "catch_src"
  /\ sources' = [sources EXCEPT ![CurrentSource(cycles[c]).id] =
                   [@ EXCEPT !.lastErrorAt = now,
                             !.statusMessage = <<cycles[c].err>>]]
  /\ checkpoints' = setCheckpoint(checkpoints, CurrentSource(cycles[c]).id,
                                  "lastTimestamp", toISOString(now))
  /\ LET nxt == NextSource(cycles[c])
     IN /\ cycles' = [cycles EXCEPT ![c] = nxt]
        /\ watcher' = WatcherAfter(nxt)
  /\ UNCHANGED <<sideVars, envVars, logVars, dataVars, started, faults>>

\* catch: prisma.ingestionSource.update({ lastErrorAt, statusMessage })
CatchSource(c) ==
  /\ cycles[c].pc = "catch_src"
  /\ sources' = [sources EXCEPT ![CurrentSource(cycles[c]).id] =
                   [@ EXCEPT !.lastErrorAt = now,
                             !.statusMessage = <<cycles[c].err>>]]
  /\ LET nxt == NextSource(cycles[c])
     IN /\ cycles' = [cycles EXCEPT ![c] = nxt]
        /\ watcher' = WatcherAfter(nxt)
  /\ UNCHANGED <<sideVars, envVars, checkpoints, logVars, dataVars, started, faults>>

CycleStep(c) ==
  \/ StartRun(c)
  \/ Unsupported(c)
  \/ AdapterScan(c)
  \/ FsFail(c)
  \/ CreateWorkspace(c)
  \/ PersistStep(c)
  \/ MarkSuccess(c)
  \/ WriteCheckpoint(c)
  \/ StoreFail(c)
  \/ CatchRun(c)
  \/ CatchError(c)
  \/ CatchSource(c)
  \/ StopBackfill(c)

\* ------------------------------------------------ the watcher's signals
\* every tick of the watcher still in flight is abandoned
AbandonTicks ==
  [c \in CycleIds |->
     IF cycles[c].proc = "watcher" /\ Active(c)
     THEN Ended(cycles[c], "dead") ELSE cycles[c]]

\* SIGINT or SIGTERM while main() is still at `await tick()`: process.on has
\* not run yet, so the signal has its default effect and the process ends
SignalDuringFirstTick ==
  /\ watcher = "starting"
  /\ watcher' = "exited"
  /\ cycles' = AbandonTicks
  /\ UNCHANGED <<envVars, configVars, logVars, dataVars, started, faults,
                 manualVars, released, pureVars>>

\* SIGINT or SIGTERM once the handlers are installed: clearInterval(interval),
\* then the handler waits for prisma.$disconnect()
SignalHandler ==
  /\ watcher = "armed"
  /\ watcher' = "stopping"
  /\ UNCHANGED <<envVars, configVars, logVars, dataVars, cycles, started,
                 faults, manualVars, released, pureVars>>

\* prisma.$disconnect() resolves and the handler calls process.exit(0)
Disconnected ==
  /\ watcher = "stopping"
  /\ released' = TRUE
  /\ watcher' = "exited"
  /\ cycles' = AbandonTicks
  /\ UNCHANGED <<envVars, configVars, logVars, dataVars, started, faults,
                 manualVars, pureVars>>

\* ------------------------------------------------- ingestCanonicalBundle
\* an absent (undefined) token count or index
NoTok == -1

OrZero(n) == IF n = NoTok THEN 0 ELSE n

MESSAGE_ROLE_MAP(role) ==
  CASE role = "user" -> "USER" [] role = "assistant" -> "ASSISTANT"
    [] role = "tool" -> "TOOL"

\* TASK_STATUS_MAP[task.status ?? "open"]
TASK_STATUS_MAP(status) ==
  CASE status = None -> "OPEN" [] status = "open" -> "OPEN"
    [] status = "in_progress" -> "IN_PROGRESS" [] status = "done" -> "DONE"
    [] status = "cancelled" -> "CANCELLED"

\* TASK_PRIORITY_MAP[task.priority ?? "medium"]
TASK_PRIORITY_MAP(priority) ==
  CASE priority = None -> "MEDIUM" [] priority = "medium" -> "MEDIUM"
    [] priority = "low" -> "LOW" [] priority = "high" -> "HIGH"

\* date strings a candidate may carry: UTC, with an offset, and free text
UtcStamp == "2024-01-01T00:00:00.000Z"
OffsetStamp == "2024-01-01T02:00:00+02:00"
FreeFormDate == "January 1 2024"

\* z.string().datetime() with no options: the date, "T", the time, an
\* optional fraction and the letter Z; an offset is not allowed
zodDatetime(stamp) == stamp = UtcStamp

\* new Date(stamp), in days of the model's clock
DateOfStamp(stamp) == IF stamp = None THEN NoTs ELSE 1

\* one entry of ZodError.issues
Issue(path, code) == [path |-> path, code |-> code]

When(violated, path, code) == IF violated THEN {Issue(path, code)} ELSE {}

SessionIssues(bundle) ==
  When(Len(bundle.title) < 1, <<"session", "title">>, "too_small")
    \cup When(bundle.startedAt # None /\ ~zodDatetime(bundle.startedAt),
              <<"session", "startedAt">>, "invalid_string")
    \cup When(bundle.endedAt # None /\ ~zodDatetime(bundle.endedAt),
              <<"session", "endedAt">>, "invalid_string")

MessageIssues(m, at) ==
  When(m.role \notin {"user", "assistant", "tool"},
       <<"messages", at, "role">>, "invalid_enum_value")
    \cup When(Len(m.content) < 1, <<"messages", at, "content">>, "too_small")
    \cup When(m.promptTokens < NoTok, <<"messages", at, "promptTokens">>, "too_small")
    \cup When(m.completionTokens < NoTok,
              <<"messages", at, "completionTokens">>, "too_small")
    \cup When(m.totalTokens < NoTok, <<"messages", at, "totalTokens">>, "too_small")

TaskIssues(task, at) ==
  When(Len(task.title) < 1, <<"tasks", at, "title">>, "too_small")
    \cup When(task.status \notin {None, "open", "in_progress", "done", "cancelled"},
              <<"tasks", at, "status">>, "invalid_enum_value")
    \cup When(task.priority \notin {None, "low", "medium", "high"},
              <<"tasks", at, "priority">>, "invalid_enum_value")

ArtifactIssues(artifact, at) ==
  When(artifact.type = "", <<"artifacts", at, "type">>, "too_small")
    \cup When(artifact.name = "", <<"artifacts", at, "name">>, "too_small")
    \cup When(artifact.content = NoText, <<"artifacts", at, "content">>, "invalid_type")
    \cup When(artifact.messageIndex < NoTok,
              <<"artifacts", at, "messageIndex">>, "too_small")

\* a validator that stops at the first field in error
FirstIssueOnly(bundle) ==
  IF Len(bundle.title) < 1 THEN {Issue(<<"session", "title">>, "too_small")}
  ELSE IF SessionIssues(bundle) # {}
       THEN {CHOOSE i \in SessionIssues(bundle) : TRUE}
  ELSE IF Len(bundle.messages) < 1 THEN {Issue(<<"messages">>, "too_small")}
  ELSE IF \E k \in 1..Len(bundle.messages) :
            MessageIssues(bundle.messages[k], NumStr(k - 1)) # {}
       THEN {CHOOSE i \in UNION {MessageIssues(bundle.messages[k], NumStr(k - 1)) :
                                   k \in 1..Len(bundle.messages)} : TRUE}
  ELSE IF \E k \in 1..Len(bundle.tasks) :
            TaskIssues(bundle.tasks[k], NumStr(k - 1)) # {}
       THEN {CHOOSE i \in UNION {TaskIssues(bundle.tasks[k], NumStr(k - 1)) :
                                   k \in 1..Len(bundle.tasks)} : TRUE}
  ELSE IF \E k \in 1..Len(bundle.artifacts) :
            ArtifactIssues(bundle.artifacts[k], NumStr(k - 1)) # {}
       THEN {CHOOSE i \in UNION {ArtifactIssues(bundle.artifacts[k], NumStr(k - 1)) :
                                   k \in 1..Len(bundle.artifacts)} : TRUE}
  ELSE UNION {When(Len(bundle.tags[k]) < 1, <<"tags", NumStr(k - 1)>>, "too_small") :
                k \in 1..Len(bundle.tags)}

\* the issues safeParse collects: every check of every field is made, and
\* each failed check adds an issue with the path of its field
SchemaIssues(bundle) ==
  SessionIssues(bundle)
    \cup When(Len(bundle.messages) < 1, <<"messages">>, "too_small")
    \cup UNION {MessageIssues(bundle.messages[k], NumStr(k - 1)) :
                  k \in 1..Len(bundle.messages)}
    \cup UNION {TaskIssues(bundle.tasks[k], NumStr(k - 1)) :
                  k \in 1..Len(bundle.tasks)}
    \cup UNION {ArtifactIssues(bundle.artifacts[k], NumStr(k - 1)) :
                  k \in 1..Len(bundle.artifacts)}
    \cup UNION {When(Len(bundle.tags[k]) < 1, <<"tags", NumStr(k - 1)>>, "too_small") :
                  k \in 1..Len(bundle.tags)}

\* canonicalBundleSchema.parse(bundle) does not throw
canonicalBundleSchema(bundle) == SchemaIssues(bundle) = {}

\* deriveBundleSummary: the first assistant message, else the first user
\* message, else the first message; whitespace collapsed, cut to 180
deriveBundleSummary(msgs) ==
  IF BestMessage(msgs, FirstWithRole(msgs, "assistant"),
                 FirstWithRole(msgs, "user")) = 0
  THEN NullText
  ELSE SummaryOf(Trim(CollapseWs(
         msgs[BestMessage(msgs, FirstWithRole(msgs, "assistant"),
                          FirstWithRole(msgs, "user"))].content)))

\* tagName.toLowerCase().replaceAll(/\s+/g, "-")
LowerCase(ch) == CASE ch = "B" -> "b" [] ch = "F" -> "f" [] OTHER -> ch

TagSlug(tagName) ==
  [i \in 1..Len(CollapseWs(tagName)) |->
     IF CollapseWs(tagName)[i] \in WhiteSpace THEN "-"
     ELSE LowerCase(CollapseWs(tagName)[i])]

\* the store calls of one transaction, in order
ManualOps(bundle) ==
  <<[kind |-> "session", i |-> 0]>>
  \o [i \in 1..Len(bundle.messages) |-> [kind |-> "message", i |-> i]]
  \o [i \in 1..Len(bundle.tasks) |-> [kind |-> "task", i |-> i]]
  \o [i \in 1..Len(bundle.tags) |-> [kind |-> "tag", i |-> i]]
  \o [i \in 1..Len(bundle.artifacts) |-> [kind |-> "artifact", i |-> i]]
  \o <<[kind |-> "metric", i |-> 0]>>

\* the tables as the transaction sees them when it begins, with what the
\* callback keeps in its local variables
TxView ==
  [sessions |-> sessions, messages |-> messages, tasks |-> tasks,
   tags |-> tags, sessionTags |-> sessionTags, artifacts |-> artifacts,
   metricSnapshots |-> metricSnapshots,
   sess |-> 0, messageRecords |-> <<>>,
   promptTokens |-> 0, completionTokens |-> 0, totalTokens |-> 0,
   maybeDuplicate |-> 0, thrown |-> None]

\* parsed.session.externalSessionId ? tx.session.findFirst(...) : null
FindDuplicate(rows, sourceToolId, ext) ==
  IF ext # None /\ ext # ""
  THEN SessionKeyIndex(rows, sourceToolId, ext) ELSE 0

\* tx.session.create; (sourceToolId, externalSessionId) is unique among the
\* rows whose external id is not null
CreateSession(w, bundle, sourceToolId, workspaceId, importSource, t) ==
  IF bundle.externalSessionId # None
     /\ SessionKeyIndex(w.sessions, sourceToolId, bundle.externalSessionId) # 0
  THEN [w EXCEPT !.thrown = "unique"]
  ELSE [w EXCEPT
          !.sessions =
             Append(@, [workspaceId |-> workspaceId,
                        sourceToolId |-> sourceToolId,
                        externalSessionId |-> bundle.externalSessionId,
                        title |-> bundle.title,
                        summary |-> IF bundle.summary # NoText THEN bundle.summary
                                    ELSE deriveBundleSummary(bundle.messages),
                        startedAt |-> DateOfStamp(bundle.startedAt),
                        lastActivityAt |-> NoTs,
                        importSource |-> importSource,
                        importedAt |-> t]),
          !.sess = Len(w.sessions) + 1]

\* the lookup and, when it finds nothing, the create
FindOrCreateSession(w, bundle, sourceToolId, workspaceId, importSource, t) ==
  IF FindDuplicate(w.sessions, sourceToolId, bundle.externalSessionId) # 0
  THEN [w EXCEPT !.maybeDuplicate =
          FindDuplicate(w.sessions, sourceToolId, bundle.externalSessionId)]
  ELSE CreateSession(w, bundle, sourceToolId, workspaceId, importSource, t)

\* one pass of the loop over parsed.messages.entries()
CreateMessage(w, message, ordinal) ==
  [w EXCEPT
     !.promptTokens = @ + OrZero(message.promptTokens),
     !.completionTokens = @ + OrZero(message.completionTokens),
     !.totalTokens = @ + (IF message.totalTokens # NoTok THEN message.totalTokens
                          ELSE OrZero(message.promptTokens)
                               + OrZero(message.completionTokens)),
     !.messages = Append(@, [sessionId |-> w.sess,
                             externalMessageId |-> <<>>,
                             role |-> MESSAGE_ROLE_MAP(message.role),
                             content |-> message.content,
                             sourceTimestamp |-> NoTs,
                             ordinal |-> ordinal]),
     !.messageRecords = Append(@, [id |-> Len(w.messages) + 1,
                                   ordinal |-> ordinal])]

CreateTask(w, task) ==
  [w EXCEPT !.tasks = Append(@, [sessionId |-> w.sess, title |-> task.title,
                                 status |-> TASK_STATUS_MAP(task.status),
                                 priority |-> TASK_PRIORITY_MAP(task.priority)])]

TagIndex(rows, slug) == FirstOf({i \in 1..Len(rows) : rows[i].slug = slug})

\* tx.sessionTag.create; (sessionId, tagId) is the primary key
CreateSessionTag(w, tagId) ==
  IF \E i \in 1..Len(w.sessionTags) :
       w.sessionTags[i].sessionId = w.sess /\ w.sessionTags[i].tagId = tagId
  THEN [w EXCEPT !.thrown = "unique"]
  ELSE [w EXCEPT !.sessionTags = Append(@, [sessionId |-> w.sess, tagId |-> tagId])]

\* tx.tag.upsert by slug, then tx.sessionTag.create; a blank name is passed over
CreateTag(w, rawTagName) ==
  IF Trim(rawTagName) = <<>> THEN w
  ELSE IF TagIndex(w.tags, TagSlug(Trim(rawTagName))) # 0
  THEN CreateSessionTag(w, TagIndex(w.tags, TagSlug(Trim(rawTagName))))
  ELSE CreateSessionTag([w EXCEPT !.tags = Append(@, [name |-> Trim(rawTagName),
                                                      slug |-> TagSlug(Trim(rawTagName))])],
                        Len(w.tags) + 1)

\* messageRecords.find((record) => record.ordinal === artifact.messageIndex)?.id
ArtifactMessageId(messageRecords, messageIndex) ==
  IF \E i \in 1..Len(messageRecords) : messageRecords[i].ordinal = messageIndex
  THEN messageRecords[FirstOf({i \in 1..Len(messageRecords) :
                                 messageRecords[i].ordinal = messageIndex})].id
  ELSE 0

CreateArtifact(w, artifact) ==
  [w EXCEPT !.artifacts =
     Append(@, [sessionId |-> w.sess,
                messageId |-> ArtifactMessageId(w.messageRecords, artifact.messageIndex),
                type |-> artifact.type, name |-> artifact.name])]

\* tx.metricSnapshot.create; the cost is kept in millionths, so that
\* Number((totalTokens / 1_000_000).toFixed(6)) is totalTokens millionths
CreateMetricSnapshot(w, sourceToolId) ==
  [w EXCEPT !.metricSnapshots =
     Append(@, [sessionId |-> w.sess, sourceToolId |-> sourceToolId,
                promptTokens |-> w.promptTokens,
                completionTokens |-> w.completionTokens,
                totalTokens |-> w.totalTokens,
                estimatedCostMillionths |-> w.totalTokens])]

\* one store call of the transaction applied to its view of the tables
TxApply(w, op, call, t) ==
  CASE op.kind = "session" ->
         FindOrCreateSession(w, call.bundle, call.sourceToolId, call.workspaceId,
                             call.importSource, t)
    [] op.kind = "message" -> CreateMessage(w, call.bundle.messages[op.i], op.i - 1)
    [] op.kind = "task" -> CreateTask(w, call.bundle.tasks[op.i])
    [] op.kind = "tag" -> CreateTag(w, call.bundle.tags[op.i])
    [] op.kind = "artifact" -> CreateArtifact(w, call.bundle.artifacts[op.i])
    [] op.kind = "metric" -> CreateMetricSnapshot(w, call.sourceToolId)

\* the tables take the values of a view
StoreBecomes(w) ==
  /\ sessions' = w.sessions
  /\ messages' = w.messages
  /\ tasks' = w.tasks
  /\ tags' = w.tags
  /\ sessionTags' = w.sessionTags
  /\ artifacts' = w.artifacts
  /\ metricSnapshots' = w.metricSnapshots

\* a callback that throws without a transaction around it
NotRolledBack(before, w) == w

\* prisma.$transaction: when the callback throws, nothing it wrote remains
RolledBack(before, w) == before

\* rows of the seven tables a view holds
RowCount(w) ==
  Len(w.sessions) + Len(w.messages) + Len(w.tasks) + Len(w.tags)
  + Len(w.sessionTags) + Len(w.artifacts) + Len(w.metricSnapshots)

\* the callback threw: the transaction is rolled back and the call rejects
TxAbort(cause, w) ==
  /\ StoreBecomes(RolledBack(TxView, w))
  /\ reply' = Reply("error", cause, 0, FALSE, RowCount(w) - RowCount(TxView))
  /\ tx' = NoTx

\* where a store call of the transaction leaves the call
TxSettle(w) ==
  IF w.thrown # None THEN TxAbort(w.thrown, w)
  ELSE IF w.maybeDuplicate # 0
  THEN /\ StoreBecomes(TxView)
       /\ reply' = Reply("ok", None, w.maybeDuplicate, TRUE, 0)
       /\ tx' = NoTx
  ELSE IF Len(tx.ops) = 1
  THEN /\ StoreBecomes(w)
       /\ reply' = Reply("ok", None, w.sess, FALSE, 0)
       /\ tx' = NoTx
  ELSE /\ tx' = [tx EXCEPT !.w = w, !.ops = Tail(@)]
       /\ UNCHANGED <<sessions, messages, tasks, tags, sessionTags, artifacts,
                      metricSnapshots, reply>>

Message(role, content, promptTokens, completionTokens, totalTokens) ==
  [role |-> role, content |-> content, promptTokens |-> promptTokens,
   completionTokens |-> completionTokens, totalTokens |-> totalTokens]

\* a bundle as the manual session route builds it: a title and messages
PlainBundle ==
  [title |-> <<"t">>, summary |-> NoText, externalSessionId |-> None,
   startedAt |-> None, endedAt |-> None,
   messages |-> <<Message("user", <<"a">>, 1, 2, NoTok)>>,
   tasks |-> <<>>, tags |-> <<>>, artifacts |-> <<>>]

\* a bundle of an importer: an external id, two messages, a task, tags and
\* artifacts
FullBundle ==
  [title |-> <<"t">>, summary |-> <<"s">>, externalSessionId |-> "e1",
   startedAt |-> None, endedAt |-> None,
   messages |-> <<Message("user", <<"a">>, NoTok, NoTok, NoTok),
                  Message("assistant", <<"b">>, 1, 1, 5)>>,
   tasks |-> <<[title |-> <<"k">>, status |-> None, priority |-> "high"]>>,
   tags |-> <<<<"B", " ", "F">>, <<" ">>>>,
   artifacts |-> <<[type |-> "file", name |-> "n", content |-> <<"c">>,
                    messageIndex |-> 1],
                   [type |-> "file", name |-> "m", content |-> <<>>,
                    messageIndex |-> NoTok]>>]

\* the bundles a caller may send
Bundles ==
  {PlainBundle,
   FullBundle,
   [PlainBundle EXCEPT !.externalSessionId = ""],
   [PlainBundle EXCEPT !.title = <<>>],
   [PlainBundle EXCEPT !.tags = <<<<"B">>, <<"b">>>>]}

\* ingestCanonicalBundle is called: the bundle is parsed, and the
\* transaction begins when the parse succeeds
ManualCall ==
  /\ tx.pc = "idle"
  /\ calls < MaxManualCalls
  /\ calls' = calls + 1
  /\ \E b \in Bundles :
       IF canonicalBundleSchema(b)
       THEN /\ tx' = [pc |-> "run", ops |-> ManualOps(b), w |-> TxView,
                      call |-> [bundle |-> b, sourceToolId |-> 1,
                                workspaceId |-> 1,
                                importSource |-> "manual-entry"]]
            /\ reply' = NoReply
       ELSE /\ tx' = NoTx
            /\ reply' = Reply("rejected", "schema", 0, FALSE, 0)
  /\ UNCHANGED <<envVars, configVars, logVars, dataVars, procVars, tasks, tags,
                 sessionTags, artifacts, metricSnapshots, released, pureVars>>

\* the next store call of the transaction
TxStep ==
  /\ tx.pc = "run"
  /\ TxSettle(TxApply(tx.w, Head(tx.ops), tx.call, now))
  /\ UNCHANGED <<envVars, configVars, logVars, tools, workspaces, parts,
                 procVars, calls, released, pureVars>>

\* a store call of the transaction rejects
TxFail ==
  /\ tx.pc = "run"
  /\ faults < MaxFaults
  /\ faults' = faults + 1
  /\ TxAbort("store", tx.w)
  /\ UNCHANGED <<envVars, configVars, logVars, tools, workspaces, parts,
                 cycles, watcher, started, calls, released, pureVars>>

\* the store after the seed: the source tool and the workspace the manual
\* session form offers
ManualInit ==
  /\ now = 1
  /\ claudeLog = <<>>
  /\ claudeMtime = 1
  /\ ocFiles = <<>>
  /\ sources = <<>>
  /\ runs = <<>>
  /\ errors = <<>>
  /\ checkpoints = <<>>
  /\ tools = <<[slug |-> "claude-code", name |-> "Claude Code"]>>
  /\ workspaces = <<[name |-> "Default", slug |-> "default"]>>
  /\ sessions = <<>>
  /\ messages = <<>>
  /\ parts = <<>>
  /\ cycles = [c \in CycleIds |-> IdleCycle]
  /\ watcher = "off"
  /\ started = 0
  /\ faults = 0
  /\ tasks = <<>>
  /\ tags = <<>>
  /\ sessionTags = <<>>
  /\ artifacts = <<>>
  /\ metricSnapshots = <<>>
  /\ tx = NoTx
  /\ reply = NoReply
  /\ calls = 0
  /\ released = FALSE
  /\ arg = NoArg
  /\ res = NoRes

ManualNext ==
  \/ AdvanceTime
  \/ ManualCall
  \/ TxStep
  \/ TxFail

ManualSpec == ManualInit /\ [][ManualNext]_vars

\* one process at a time: the operator starts a backfill only when no cycle
\* is running
StartBackfillAlone ==
  /\ NoCycleRunning
  /\ started < MaxBackfills
  /\ StartBackfill

\* backfills run one after another over a growing log, with an unsupported
\* source and failures
Next ==
  \/ AdvanceTime
  \/ ClaudeAppend
  \/ AddSource
  \/ StartBackfillAlone
  \/ \E c \in CycleIds : CycleStep(c)

Spec == Init /\ [][Next]_vars

\* the steps of a cycle in which nothing fails
CleanStep(c) ==
  \/ StartRun(c)
  \/ AdapterScan(c)
  \/ CreateWorkspace(c)
  \/ PersistStep(c)
  \/ MarkSuccess(c)
  \/ WriteCheckpoint(c)

\* backfills run one after another over files that grow between them
DataNext ==
  \/ AdvanceTime
  \/ ClaudeAppend
  \/ OcWriteSession
  \/ OcWriteMessage
  \/ StartBackfillAlone
  \/ \E c \in CycleIds : CleanStep(c)

DataSpec == Init /\ [][DataNext]_vars

\* the watcher process, its timer and its ticks
WatchStep(c) ==
  \/ StartRun(c)
  \/ AdapterScan(c)
  \/ CreateWorkspace(c)
  \/ PersistStep(c)
  \/ MarkSuccess(c)
  \/ WriteCheckpoint(c)

WatchNext ==
  \/ AdvanceTime
  \/ ClaudeAppend
  \/ StartWatcher
  \/ TimerFire
  \/ StopWatcher
  \/ \E c \in CycleIds : WatchStep(c)

WatchSpec == Init /\ [][WatchNext]_vars

\* a line reaches the file cut short: JSON.parse will throw on it
ClaudeAppendTruncated ==
  /\ NoCycleRunning
  /\ Len(claudeLog) < MaxClaudeEvents
  /\ \E e \in ClaudeEvents(now) :
       /\ \A i \in 1..Len(claudeLog) : claudeLog[i].uuid # e.uuid
       /\ claudeLog' = Append(claudeLog, [e EXCEPT !.ok = FALSE])
  /\ claudeMtime' = now
  /\ UNCHANGED <<sideVars, now, ocFiles, configVars, logVars, dataVars, procVars>>

\* the rest of a truncated line is written: the line now parses
ClaudeRepair ==
  /\ NoCycleRunning
  /\ \E i \in 1..Len(claudeLog) :
       /\ ~claudeLog[i].ok
       /\ claudeLog' = [claudeLog EXCEPT ![i] = [@ EXCEPT !.ok = TRUE]]
  /\ claudeMtime' = now
  /\ UNCHANGED <<sideVars, now, ocFiles, configVars, logVars, dataVars, procVars>>

\* backfills run one after another over a log some of whose lines are
\* malformed for a while
RetryNext ==
  \/ AdvanceTime
  \/ ClaudeAppend
  \/ ClaudeAppendTruncated
  \/ ClaudeRepair
  \/ StartBackfillAlone
  \/ \E c \in CycleIds : CleanStep(c)

RetrySpec == Init /\ [][RetryNext]_vars

\* the watcher process and the signals sent to it
SignalNext ==
  \/ ClaudeAppend
  \/ StartWatcher
  \/ TimerFire
  \/ SignalDuringFirstTick
  \/ SignalHandler
  \/ Disconnected
  \/ \E c \in CycleIds : WatchStep(c)

SignalSpec == Init /\ [][SignalNext]_vars

\* a backfill is started while another one may be running: separate
\* processes on one store
StartBackfillBeside ==
  /\ started < MaxBackfills
  /\ StartBackfill

ParallelStep(c) ==
  \/ WatchStep(c)
  \/ CatchRun(c)
  \/ CatchError(c)
  \/ CatchSource(c)

ParallelNext ==
  \/ ClaudeAppend
  \/ StartBackfillBeside
  \/ \E c \in CycleIds : ParallelStep(c)

ParallelSpec == Init /\ [][ParallelNext]_vars

\* the agent writes a line while a cycle is between two of its awaits
ClaudeAppendDuring ==
  /\ ~NoCycleRunning
  /\ Len(claudeLog) < MaxClaudeEvents
  /\ \E e \in ClaudeEvents(now) :
       /\ \A i \in 1..Len(claudeLog) : claudeLog[i].uuid # e.uuid
       /\ claudeLog' = Append(claudeLog, e)
  /\ claudeMtime' = now
  /\ UNCHANGED <<sideVars, now, ocFiles, configVars, logVars, dataVars, procVars>>

\* two processes on one store over a log that grows while they run
OverlapNext ==
  \/ AdvanceTime
  \/ ClaudeAppend
  \/ ClaudeAppendDuring
  \/ StartBackfillBeside
  \/ \E c \in CycleIds : WatchStep(c)

OverlapSpec == Init /\ [][OverlapNext]_vars

\* -------------------------------------------------- utility functions
\* the tokens texts are made of: a letter, a blank, a line break, the tags in
\* lower and upper case, and the two pieces of an opening tag
TextTokens ==
  {"a", " ", "\n",
   "<system-reminder>", "</SYSTEM-REMINDER>",
   "<LOCAL-COMMAND-CAVEAT>", "</local-command-caveat>",
   "<local-command-stdout>", "</local-command-stdout>",
   "<system-", "reminder>"}

Texts == UNION {[1..n -> TextTokens] : n \in 0..MaxTextLen}

\* the type strings a transcript may carry; None stands for undefined
TypeWords ==
  {None, "", "assistant", "system", "progress", "user", "human", "tool",
   "text", "thinking", "tool_use", "tool_result", "image", "reasoning",
   "step-start", "step-finish", "error", "blob", "Assistant", "TEXT"}

PureInit ==
  /\ now = 1
  /\ claudeLog = <<>>
  /\ claudeMtime = 1
  /\ ocFiles = <<>>
  /\ sources = <<>>
  /\ runs = <<>>
  /\ errors = <<>>
  /\ checkpoints = <<>>
  /\ tools = <<>>
  /\ workspaces = <<>>
  /\ sessions = <<>>
  /\ messages = <<>>
  /\ parts = <<>>
  /\ cycles = [c \in CycleIds |-> IdleCycle]
  /\ watcher = "off"
  /\ started = 0
  /\ faults = 0
  /\ tasks = <<>>
  /\ tags = <<>>
  /\ sessionTags = <<>>
  /\ artifacts = <<>>
  /\ metricSnapshots = <<>>
  /\ tx = NoTx
  /\ reply = NoReply
  /\ calls = 0
  /\ released = FALSE
  /\ arg \in {[kind |-> "text", text |-> t] : t \in Texts}
             \cup {[kind |-> "type", type |-> w] : w \in TypeWords}
  /\ res = NoRes

\* sanitizeImportedText(arg)
ApplySanitize ==
  /\ arg.kind = "text"
  /\ res = NoRes
  /\ res' = [fn |-> "sanitizeImportedText",
             out |-> sanitizeImportedText(arg.text)]
  /\ UNCHANGED <<envVars, configVars, logVars, dataVars, procVars, manualVars,
                 released, arg>>

\* sanitizeImportedText applied to its own output
ApplySanitizeAgain ==
  /\ res.fn = "sanitizeImportedText"
  /\ res' = [fn |-> "sanitizeImportedText twice", out |-> res.out,
             again |-> sanitizeImportedText(res.out)]
  /\ UNCHANGED <<envVars, configVars, logVars, dataVars, procVars, manualVars,
                 released, arg>>

\* the four mappers applied to arg
ApplyMappers ==
  /\ arg.kind = "type"
  /\ res = NoRes
  /\ res' = [fn |-> "map",
             claudeRole |-> mapClaudeRole(arg.type),
             claudePartType |-> mapClaudePartType(arg.type),
             openCodeRole |-> mapOpenCodeRole(arg.type),
             openCodePartType |-> mapOpenCodePartType(arg.type)]
  /\ UNCHANGED <<envVars, configVars, logVars, dataVars, procVars, manualVars,
                 released, arg>>

PureNext ==
  \/ ApplySanitize
  \/ ApplySanitizeAgain
  \/ ApplyMappers

PureSpec == PureInit /\ [][PureNext]_vars

\* ------------------------------------------- titles and summaries
\* nothing stored, nothing running
Quiescent ==
  /\ now = 1
  /\ claudeLog = <<>>
  /\ claudeMtime = 1
  /\ ocFiles = <<>>
  /\ sources = <<>>
  /\ runs = <<>>
  /\ errors = <<>>
  /\ checkpoints = <<>>
  /\ tools = <<>>
  /\ workspaces = <<>>
  /\ sessions = <<>>
  /\ messages = <<>>
  /\ parts = <<>>
  /\ cycles = [c \in CycleIds |-> IdleCycle]
  /\ watcher = "off"
  /\ started = 0
  /\ faults = 0
  /\ tasks = <<>>
  /\ tags = <<>>
  /\ sessionTags = <<>>
  /\ artifacts = <<>>
  /\ metricSnapshots = <<>>
  /\ tx = NoTx
  /\ reply = NoReply
  /\ calls = 0
  /\ released = FALSE

\* the tokens around the run of letters of a long text
EdgeTokens == {"a", " ", "\n", ".", "<system-reminder>", "</SYSTEM-REMINDER>"}

EdgeTexts(n) == UNION {[1..k -> EdgeTokens] : k \in 0..n}

\* a text with a run of letters in it, or with none
LongTexts ==
  {h \o r \o t :
     h \in EdgeTexts(MaxHeadLen),
     r \in {<<>>} \cup {<<RunToken(n)>> : n \in RunLengths},
     t \in EdgeTexts(MaxTailLen)}

\* contents of the messages of a short list
ShortTexts ==
  {<<>>, <<"a">>, <<"b">>, <<" ">>,
   <<"<system-reminder>", "a", "</SYSTEM-REMINDER>">>}

MessageLists ==
  UNION {[1..n -> [role : {"USER", "ASSISTANT", "TOOL"}, content : ShortTexts]] :
           n \in 0..MaxMessages}

UtilInit ==
  /\ Quiescent
  /\ arg \in {[kind |-> "title", content |-> t, sessionId |-> sid] :
                t \in LongTexts, sid \in {"s1", "abcdefgh-1"}}
             \cup {[kind |-> "messages", messages |-> ms] : ms \in MessageLists}
             \cup {[kind |-> "messages",
                    messages |-> <<[role |-> "USER", content |-> t]>>] :
                     t \in LongTexts}
  /\ res = NoRes

\* fallbackSessionTitle(arg.content, arg.sessionId)
ApplyTitle ==
  /\ arg.kind = "title"
  /\ res = NoRes
  /\ res' = [fn |-> "fallbackSessionTitle",
             out |-> fallbackSessionTitle(arg.content, arg.sessionId)]
  /\ UNCHANGED <<envVars, configVars, logVars, dataVars, procVars, manualVars,
                 released, arg>>

\* deriveSessionSummary(arg.messages)
ApplySummary ==
  /\ arg.kind = "messages"
  /\ res = NoRes
  /\ res' = [fn |-> "deriveSessionSummary",
             out |-> deriveSessionSummary(arg.messages)]
  /\ UNCHANGED <<envVars, configVars, logVars, dataVars, procVars, manualVars,
                 released, arg>>

UtilNext ==
  \/ ApplyTitle
  \/ ApplySummary

UtilSpec == UtilInit /\ [][UtilNext]_vars

\* ------------------------------------------------------ parseTranscript
\* A pasted text is a sequence of tokens: letters, a blank, a line break and
\* role labels in several letter cases.  A label counts as one only at the
\* start of the first line of a chunk.
\* the role a token names when it stands where /^user:/i, /^assistant:/i or
\* /^tool:/i is matched
LabelRole(tok) ==
  CASE tok = "user:" -> "user"
    [] tok = "Assistant:" -> "assistant"
    [] tok = "TOOL:" -> "tool"
    [] OTHER -> None

\* the end of the run of line breaks that position i stands in
RECURSIVE NewlineRunEnd(_, _)
NewlineRunEnd(s, i) ==
  IF i < Len(s) /\ s[i + 1] = "\n" THEN NewlineRunEnd(s, i + 1) ELSE i

\* raw.split(/\n{2,}/)
RECURSIVE SplitBlankFrom(_, _, _)
SplitBlankFrom(s, i, cur) ==
  IF i > Len(s) THEN <<cur>>
  ELSE IF s[i] = "\n" /\ i < Len(s) /\ s[i + 1] = "\n"
       THEN <<cur>> \o SplitBlankFrom(s, NewlineRunEnd(s, i) + 1, <<>>)
       ELSE SplitBlankFrom(s, i + 1, Append(cur, s[i]))

\* chunk.split("\n")
RECURSIVE SplitLinesFrom(_, _, _)
SplitLinesFrom(s, i, cur) ==
  IF i > Len(s) THEN <<cur>>
  ELSE IF s[i] = "\n"
       THEN <<cur>> \o SplitLinesFrom(s, i + 1, <<>>)
       ELSE SplitLinesFrom(s, i + 1, Append(cur, s[i]))

\* lines.join("\n")
RECURSIVE JoinLines(_)
JoinLines(lines) ==
  IF lines = <<>> THEN <<>>
  ELSE IF Len(lines) = 1 THEN lines[1]
  ELSE lines[1] \o <<"\n">> \o JoinLines(Tail(lines))

TrimEach(pieces) == [k \in 1..Len(pieces) |-> Trim(pieces[k])]

\* Boolean(chunk) of a string
NonEmptyText(t) == t # <<>>

\* .split(/\n{2,}/).map((chunk) => chunk.trim()).filter(Boolean)
Chunks(raw) == SelectSeq(TrimEach(SplitBlankFrom(raw, 1, <<>>)), NonEmptyText)

\* the group (.*) behind the label and \s*
Captured(firstLine) == TrimLeft(Tail(firstLine))

\* the captured text and the rest put together without a line break
LabelledContentGlued(captured, rest) == Trim(captured \o rest)

\* `${match[1]}${rest ? `\n${rest}` : ""}`.trim()
LabelledContent(captured, rest) ==
  Trim(captured \o (IF rest # <<>> THEN <<"\n">> \o rest ELSE <<>>))

\* what the map callback returns for !firstLine
NullEntry == [role |-> None, content |-> <<>>]

\* Boolean(entry) of an object or null
IsEntry(entry) == entry # NullEntry

ChunkEntry(chunk, index, firstLine, rest) ==
  IF firstLine = <<>> THEN NullEntry
  ELSE IF LabelRole(firstLine[1]) # None
       THEN [role |-> LabelRole(firstLine[1]),
             content |-> LabelledContent(Captured(firstLine), rest)]
       ELSE [role |-> IF index % 2 = 0 THEN "user" ELSE "assistant",
             content |-> chunk]

\* firstLine = lines[0]?.trim(), rest = lines.slice(1).join("\n").trim()
EntryOf(chunk, index, lines) ==
  ChunkEntry(chunk, index, Trim(lines[1]), Trim(JoinLines(Tail(lines))))

Entries(chunks) ==
  SelectSeq([k \in 1..Len(chunks) |->
               EntryOf(chunks[k], k - 1, SplitLinesFrom(chunks[k], 1, <<>>))],
            IsEntry)

parseTranscript(raw) == Entries(Chunks(raw))

RawTokens == {"a", "b", " ", "\n", "user:", "Assistant:", "TOOL:"}

RawTexts == UNION {[1..n -> RawTokens] : n \in 0..MaxRawLen}

ParseInit ==
  /\ Quiescent
  /\ arg \in {[kind |-> "raw", raw |-> t] : t \in RawTexts}
  /\ res = NoRes

\* parseTranscript(arg.raw)
ApplyParse ==
  /\ arg.kind = "raw"
  /\ res = NoRes
  /\ res' = [fn |-> "parseTranscript", out |-> parseTranscript(arg.raw)]
  /\ UNCHANGED <<envVars, configVars, logVars, dataVars, procVars, manualVars,
                 released, arg>>

ParseNext == ApplyParse

ParseSpec == ParseInit /\ [][ParseNext]_vars

\* --------------------------------------------------- bundle validation
\* candidate bundles: every field with its valid and invalid values
CandidateMessages ==
  {<<>>, <<Message("user", <<"a">>, 1, 2, -2)>>}
    \cup {<<Message(r, c, p, NoTok, NoTok)>> :
            r \in {"user", "tool", "system"}, c \in {<<>>, <<"a">>},
            p \in {NoTok, 0, -2}}
    \cup {<<Message("user", <<"a">>, NoTok, NoTok, NoTok), Message(r, c, 1, -2, 3)>> :
            r \in {"assistant", "bot"}, c \in {<<>>, <<"b">>}}

CandidateTasks ==
  {<<>>,
   <<[title |-> <<"k">>, status |-> "done", priority |-> None]>>,
   <<[title |-> <<>>, status |-> None, priority |-> "low"]>>,
   <<[title |-> <<"k">>, status |-> "blocked", priority |-> None]>>,
   <<[title |-> <<"k">>, status |-> "open", priority |-> "urgent"]>>}

CandidateArtifacts ==
  {<<>>}
    \cup {<<[type |-> ty, name |-> nm, content |-> <<>>, messageIndex |-> NoTok]>> :
            ty \in {"", "file"}, nm \in {"", "n"}}
    \cup {<<[type |-> "file", name |-> "n", content |-> cm[1],
             messageIndex |-> cm[2]]>> :
            cm \in {<<NoText, NoTok>>, <<<<"c">>, -2>>, <<<<"c">>, 0>>}}

CandidateTags == {<<>>, <<<<"x">>>>, <<<<"x">>, <<>>>>}

Candidates ==
  {[title |-> ti, summary |-> NoText, externalSessionId |-> None,
    startedAt |-> sa, endedAt |-> ea, messages |-> ms, tasks |-> ts,
    tags |-> tg, artifacts |-> ar] :
     ti \in {<<>>, <<"t">>},
     sa \in {None, UtcStamp, OffsetStamp, FreeFormDate},
     ea \in {None, FreeFormDate},
     ms \in CandidateMessages, ts \in CandidateTasks,
     tg \in CandidateTags, ar \in CandidateArtifacts}

SchemaInit ==
  /\ Quiescent
  /\ arg \in {[kind |-> "bundle", bundle |-> b] : b \in Candidates}
  /\ res = NoRes

\* canonicalBundleSchema.parse(arg.bundle): the parsed bundle, or a ZodError
\* with its issues
ApplySchema ==
  /\ arg.kind = "bundle"
  /\ res = NoRes
  /\ res' = [fn |-> "canonicalBundleSchema",
             ok |-> canonicalBundleSchema(arg.bundle),
             issues |-> SchemaIssues(arg.bundle)]
  /\ UNCHANGED <<envVars, configVars, logVars, dataVars, procVars, manualVars,
                 released, arg>>

\* the catch block of the manual session route for a ZodError
PostCatch ==
  /\ res.fn = "canonicalBundleSchema"
  /\ ~res.ok
  /\ res' = [fn |-> "POST", status |-> 422, error |-> "Validation failed.",
             details |-> res.issues]
  /\ UNCHANGED <<envVars, configVars, logVars, dataVars, procVars, manualVars,
                 released, arg>>

SchemaNext ==
  \/ ApplySchema
  \/ PostCatch

SchemaSpec == SchemaInit /\ [][SchemaNext]_vars

\* ------------------------------------------------------ adapter scans
\* logs and session stores with their records in any order of time
ScanUuid(i) ==
  CASE i = 1 -> "m1" [] i = 2 -> "m2" [] i = 3 -> "m3" [] i = 4 -> "m4"
    [] OTHER -> "m5"

ScanTimes == {NoTs} \cup (1..MaxTime)

\* a line that JSON.parse rejects: no field of it is ever read
BrokenLine ==
  [TextEvent("m9", 2) EXCEPT !.ok = FALSE, !.sid = "s9"]

\* an item of a content list that is not an object (a bare string, a null)
BareItem == [obj |-> FALSE, type |-> None, text |-> NoText, name |-> None]

TextItem == [obj |-> TRUE, type |-> "text", text |-> <<"b">>, name |-> None]

ToolItem == [obj |-> TRUE, type |-> "tool_use", text |-> NoText, name |-> "Bash"]

\* the well-formed text events line i may hold: any session, any timestamp
ScanTextEvents(i) ==
  {[TextEvent(ScanUuid(i), t) EXCEPT !.sid = sid] :
     t \in ScanTimes, sid \in {"s1", "s2"}}

\* the other records line i may hold: a broken line, an event without a
\* session id, events without content, list contents, events without an id
ScanOddEvents(i) ==
  {BrokenLine,
   [TextEvent(ScanUuid(i), 2) EXCEPT !.sid = None],
   MarkupEvent(ScanUuid(i), 2),
   ListEvent(ScanUuid(i), 2),
   [ListEvent(ScanUuid(i), 2) EXCEPT !.items = <<BareItem, TextItem>>],
   [ListEvent(ScanUuid(i), 2) EXCEPT !.items = <<ToolItem>>],
   [TextEvent(None, 2) EXCEPT !.msgId = "x1"],
   TextEvent(None, 2),
   [TextEvent(None, 2) EXCEPT !.text = <<RunToken(SummaryMax - 4)>>]}

ScanEvents(i) == ScanTextEvents(i) \cup ScanOddEvents(i)

\* Claude logs: line i holds any of its records
ScanLogs ==
  UNION {{[i \in 1..n |-> pick[i]] :
            pick \in {f \in [1..n -> UNION {ScanEvents(i) : i \in 1..n}] :
                        \A i \in 1..n : f[i] \in ScanEvents(i)}} :
           n \in 0..MaxScanItems}

ScanOcMessage(i, t) ==
  [id |-> ScanUuid(i), created |-> t, role |-> "user", summaryTitle |-> NoText,
   parts |-> <<OcTextPart(t)>>]

\* a second text part, and a text part that holds white space only
OcLaterTextPart(start) ==
  [OcTextPart(start) EXCEPT !.id = "p2", !.text = <<"e">>]

OcBlankPart == [OcTextPart(1) EXCEPT !.id = None, !.text = <<" ">>]

\* the other message files slot i may hold: no parts, a tool part only, a
\* summary title only, a blank text, parts out of order, no message id
ScanOddMessages(i) ==
  {[ScanOcMessage(i, 2) EXCEPT !.parts = <<>>],
   [ScanOcMessage(i, 2) EXCEPT !.parts = <<OcToolPart(1)>>],
   [ScanOcMessage(i, 2) EXCEPT !.parts = <<>>, !.summaryTitle = <<"t">>],
   [ScanOcMessage(i, 2) EXCEPT !.parts = <<OcBlankPart>>],
   [ScanOcMessage(i, 2) EXCEPT
      !.parts = <<OcToolPart(3), OcLaterTextPart(2), OcTextPart(NoTs)>>],
   [ScanOcMessage(i, 2) EXCEPT !.id = None]}

ScanOcMessages(i) ==
  {ScanOcMessage(i, t) : t \in ScanTimes} \cup ScanOddMessages(i)

ScanMessageLists ==
  UNION {{[i \in 1..n |-> pick[i]] :
            pick \in {f \in [1..n -> UNION {ScanOcMessages(i) : i \in 1..n}] :
                        \A i \in 1..n : f[i] \in ScanOcMessages(i)}} :
           n \in 0..MaxScanItems}

\* OpenCode stores: one session file with any created and updated time, its
\* message files in any order of time
ScanStores ==
  {<<[id |-> "o1", created |-> c, updated |-> u, title |-> NoText,
      messages |-> ms]>> :
     c \in ScanTimes, u \in ScanTimes, ms \in ScanMessageLists}

ScanInit ==
  /\ Quiescent
  /\ arg \in {[kind |-> "claude", lines |-> l, since |-> t] :
                l \in ScanLogs, t \in {0, 2}}
             \cup {[kind |-> "opencode", files |-> f, since |-> t] :
                     f \in ScanStores, t \in {0, 2}}
  /\ res = NoRes

\* runClaudeSource up to the call of persistSessions
ApplyClaudeScan ==
  /\ arg.kind = "claude"
  /\ res = NoRes
  /\ res' = [fn |-> "runClaudeSource", persisted |-> 0,
             out |-> ClaudeScan(arg.lines, MaxTime, arg.since)]
  /\ UNCHANGED <<envVars, configVars, logVars, dataVars, procVars, manualVars,
                 released, arg>>

\* runOpenCodeSource up to the call of persistSessions
ApplyOpenCodeScan ==
  /\ arg.kind = "opencode"
  /\ res = NoRes
  /\ res' = [fn |-> "runOpenCodeSource", persisted |-> 0,
             out |-> OpenCodeScan(arg.files, arg.since)]
  /\ UNCHANGED <<envVars, configVars, logVars, dataVars, procVars, manualVars,
                 released, arg>>

\* the store as a call of persistSessions finds it
ScanView ==
  [sessions |-> sessions, messages |-> messages, parts |-> parts,
   sess |-> 0, msg |-> 0,
   upsertedSessions |-> 0, upsertedMessages |-> 0, upsertedParts |-> 0]

ScanPersisted(ops) ==
  PersistAll(ScanView, ops, Len(ops), 1, 1,
             IF res.fn = "runClaudeSource" THEN "claude-watcher"
             ELSE "opencode-watcher", now)

\* persistSessions on the result of the scan; a later run over the same files
\* with the same lower bound scans the same result and writes it again
ApplyPersist ==
  /\ res.fn \in {"runClaudeSource", "runOpenCodeSource"}
  /\ res.persisted < MaxPersists
  /\ sessions' = ScanPersisted(PersistOps(res.out.sessions, Len(res.out.sessions))).sessions
  /\ messages' = ScanPersisted(PersistOps(res.out.sessions, Len(res.out.sessions))).messages
  /\ parts' = ScanPersisted(PersistOps(res.out.sessions, Len(res.out.sessions))).parts
  /\ res' = [res EXCEPT !.persisted = @ + 1]
  /\ UNCHANGED <<envVars, configVars, logVars, tools, workspaces, procVars,
                 manualVars, released, arg>>

ScanNext ==
  \/ ApplyClaudeScan
  \/ ApplyOpenCodeScan
  \/ ApplyPersist

ScanSpec == ScanInit /\ [][ScanNext]_vars

\* ------------------------------------------------------------ properties
CatchPcs == {"catch_run", "catch_err", "catch_src"}

\* the scan of a cycle's current source taken once more with the same lower
\* bound, and persistSessions applied to its result at time t
SecondRun(c, t) ==
  PersistAll(PersistView(cycles[c]),
             PersistOps(Scan(CurrentSource(cycles[c]).type, cycles[c].since).sessions,
                        Len(Scan(CurrentSource(cycles[c]).type, cycles[c].since).sessions)),
             Len(PersistOps(Scan(CurrentSource(cycles[c]).type, cycles[c].since).sessions,
                            Len(Scan(CurrentSource(cycles[c]).type, cycles[c].since).sessions))),
             cycles[c].tool, cycles[c].ws,
             ImportSource(CurrentSource(cycles[c]).type), t)

\* C1: a source whose adapter throws, the unsupported type included, is
\* caught inside its own iteration: once the catch block is through, the cycle
\* starts the run of the next enabled source, or returns after the last one,
\* and a cycle that returned has created one run per enabled source.
C1_FailureIsolation ==
  /\ [][\A c \in CycleIds :
          (cycles[c].pc = "catch_src" /\ cycles'[c] # cycles[c]
             /\ cycles'[c].pc # "dead")
          => IF cycles[c].idx < Len(cycles[c].srcs)
             THEN /\ cycles'[c].pc = "start_run"
                  /\ cycles'[c].idx = cycles[c].idx + 1
                  /\ cycles'[c].srcs = cycles[c].srcs
             ELSE cycles'[c].pc = "done"]_vars
  /\ [][\A c \in CycleIds :
          (cycles[c].pc \notin CatchPcs /\ cycles'[c].pc \in CatchPcs)
          => /\ cycles'[c].pc = "catch_run"
             /\ cycles'[c].idx = cycles[c].idx
             /\ cycles'[c].srcs = cycles[c].srcs]_vars
  /\ []((\A c \in CycleIds : cycles[c].pc \in {"idle", "done"})
        => Len(runs) = started * Len(EnabledSources(sources)))

\* a cycle in which the unsupported source failed and a later source succeeded
C1_Witness ==
  /\ started = 1
  /\ \E i, j \in 1..Len(runs) :
       /\ i < j
       /\ runs[i].status = "FAILED"
       /\ runs[i].note = "unsupported"
       /\ runs[j].status = "SUCCESS"

\* C2: the checkpoint rows change only in the step of a cycle whose run is
\* SUCCESS and whose adapter returned a maximum timestamp; the row written is
\* (source, "lastTimestamp") with that timestamp's ISO string, no other row
\* changes, and the run stays SUCCESS.  A cycle in its catch block finds the
\* checkpoint as its scan read it: scanning now gives the same lower bound.
C2_CheckpointOnlyOnSuccess ==
  /\ [][checkpoints' # checkpoints
        => \E c \in CycleIds :
             /\ cycles[c].pc = "checkpoint"
             /\ runs[cycles[c].run].status = "SUCCESS"
             /\ runs'[cycles[c].run].status = "SUCCESS"
             /\ cycles[c].maxTimestamp # NoTs
             /\ cycles'[c].pc \notin CatchPcs
             /\ \E k \in 1..Len(checkpoints') :
                  /\ checkpoints'[k].sourceId = CurrentSource(cycles[c]).id
                  /\ checkpoints'[k].cursorKey = "lastTimestamp"
                  /\ checkpoints'[k].cursorValue[1] = "iso"
                  /\ checkpoints'[k].cursorValue[2] = cycles[c].maxTimestamp
                  /\ Len(checkpoints') = IF k > Len(checkpoints) THEN k
                                         ELSE Len(checkpoints)
                  /\ \A j \in 1..Len(checkpoints) :
                       j # k => checkpoints'[j] = checkpoints[j]]_vars
  /\ [](\A c \in CycleIds :
          (cycles[c].pc \in CatchPcs /\ cycles[c].since # NoTs)
          => ScanSince(getCheckpoint(checkpoints, CurrentSource(cycles[c]).id,
                                     "lastTimestamp"),
                       now, CurrentSource(cycles[c]).lookbackDays)
             = cycles[c].since)

\* a run that saw a newer timestamp fails, and the older checkpoint is there
C2_Witness ==
  \E c \in CycleIds :
    /\ cycles[c].pc = "catch_src"
    /\ cycles[c].maxTimestamp # NoTs
    /\ getCheckpoint(checkpoints, CurrentSource(cycles[c]).id, "lastTimestamp")
         # NoCheckpoint
    /\ DateOf(getCheckpoint(checkpoints, CurrentSource(cycles[c]).id,
                            "lastTimestamp")) < cycles[c].maxTimestamp

C4_OneRowPerKey ==
  /\ \A i, j \in 1..Len(sessions) :
       (sessions[i].sourceToolId = sessions[j].sourceToolId
          /\ sessions[i].externalSessionId = sessions[j].externalSessionId)
       => i = j
  /\ \A i, j \in 1..Len(messages) :
       (messages[i].sessionId = messages[j].sessionId
          /\ messages[i].externalMessageId = messages[j].externalMessageId)
       => i = j
  /\ \A i, j \in 1..Len(parts) :
       (parts[i].messageId = parts[j].messageId
          /\ parts[i].externalPartId = parts[j].externalPartId)
       => i = j

\* two ticks running at once have both upserted the same session and are
\* writing its messages and parts
C4_Witness ==
  \E c1, c2 \in CycleIds :
    /\ c1 # c2
    /\ cycles[c1].pc = "persist"
    /\ cycles[c2].pc = "persist"
    /\ cycles[c1].sess # 0
    /\ cycles[c1].sess = cycles[c2].sess
    /\ cycles[c1].upsertedParts > 0
    /\ cycles[c2].upsertedParts > 0

\* C5: at no time are two cycles of the watcher process running at once.
C5_TicksSerialized ==
  Cardinality({c \in CycleIds : cycles[c].proc = "watcher" /\ Active(c)}) <= 1

\* C6: when no cycle is inside persistSessions, every stored session has the
\* messages it was written with: none is left with no message at all.
C6_NoPartialSession ==
  (\A c \in CycleIds : cycles[c].pc # "persist")
  => \A s \in 1..Len(sessions) :
       \E m \in 1..Len(messages) : messages[m].sessionId = s

\* C7: a run is created RUNNING, it is SUCCESS or FAILED when its cycle moves
\* on to the next source, and a run that is SUCCESS or FAILED keeps its status.
C7_RunStatusFinal ==
  /\ [][\A i \in 1..Len(runs') :
          i > Len(runs) => runs'[i].status = "RUNNING"]_vars
  /\ [][\A c \in CycleIds :
          (cycles[c].run # 0 /\ cycles'[c].run # cycles[c].run
             /\ cycles'[c].pc # "dead")
          => runs'[cycles[c].run].status \in {"SUCCESS", "FAILED"}]_vars
  /\ [][\A i \in 1..Len(runs) :
          runs[i].status \in {"SUCCESS", "FAILED"}
          => runs'[i].status = runs[i].status]_vars

C9_DenseOrdinals ==
  NoCycleRunning
  => \A s \in 1..Len(sessions) :
       LET ms == {m \in 1..Len(messages) : messages[m].sessionId = s}
       IN /\ {messages[m].ordinal : m \in ms} = 0..(Cardinality(ms) - 1)
          /\ \A m1, m2 \in ms :
               messages[m1].ordinal < messages[m2].ordinal
               => TimeOrZero(messages[m1].sourceTimestamp)
                    <= TimeOrZero(messages[m2].sourceTimestamp)

\* C10: a step of persistSessions never creates or changes a row of a session
\* that the scan rebuilt without messages or without an id, and when it has
\* returned the run counts every rebuilt session as scanned and only the
\* others as upserted.
C10_SkippedSessions ==
  /\ [][\A c \in CycleIds :
          cycles[c].pc = "persist"
          => LET scan == Scan(CurrentSource(cycles[c]).type, cycles[c].since).sessions
                 skipped == {scan[i].externalSessionId :
                               i \in {n \in 1..Len(scan) :
                                      \/ scan[n].externalSessionId = None
                                      \/ Len(scan[n].messages) = 0}}
             IN /\ \A i \in 1..Len(sessions') :
                     (i > Len(sessions) \/ sessions'[i] # sessions[i])
                     => ~(sessions'[i].sourceToolId = cycles[c].tool
                          /\ sessions'[i].externalSessionId \in skipped)
                /\ \A i \in 1..Len(messages') :
                     (i > Len(messages) \/ messages'[i] # messages[i])
                     => ~(sessions'[messages'[i].sessionId].sourceToolId = cycles[c].tool
                          /\ sessions'[messages'[i].sessionId].externalSessionId \in skipped)
                /\ \A i \in 1..Len(parts') :
                     (i > Len(parts) \/ parts'[i] # parts[i])
                     => ~(sessions'[parts'[i].sessionId].sourceToolId = cycles[c].tool
                          /\ sessions'[parts'[i].sessionId].externalSessionId \in skipped)]_vars
  /\ [](\A c \in CycleIds :
          cycles[c].pc = "success"
          => LET scan == Scan(CurrentSource(cycles[c]).type, cycles[c].since).sessions
             IN /\ cycles[c].scannedSessions = Len(scan)
                /\ cycles[c].upsertedSessions
                     = Cardinality({n \in 1..Len(scan) :
                                     /\ scan[n].externalSessionId # None
                                     /\ Len(scan[n].messages) > 0}))

\* a run scanned a session file without messages and upserted no session
C10_Witness ==
  \E c \in CycleIds :
    /\ cycles[c].pc = "success"
    /\ CurrentSource(cycles[c]).type = "OPENCODE"
    /\ cycles[c].scannedSessions = 1
    /\ cycles[c].upsertedSessions = 0

\* C11: when ingestCanonicalBundle reaches its session step without a store
\* failure, a bundle that supplies an external session id already held by a
\* session of the same source tool returns that session with
\* deduplicated = true and leaves every table as it was, and any other
\* bundle gets a new session row in the transaction.
C11_DedupByExternalId ==
  [][(tx.pc = "run" /\ Head(tx.ops).kind = "session" /\ tx' # tx
      /\ faults' = faults)
       => IF /\ tx.call.bundle.externalSessionId # None
             /\ \E i \in 1..Len(sessions) :
                  /\ sessions[i].sourceToolId = tx.call.sourceToolId
                  /\ sessions[i].externalSessionId
                       = tx.call.bundle.externalSessionId
          THEN /\ reply'.status = "ok"
               /\ reply'.deduplicated
               /\ reply'.sessionId \in 1..Len(sessions)
               /\ sessions[reply'.sessionId].externalSessionId
                    = tx.call.bundle.externalSessionId
               /\ UNCHANGED <<sessions, messages, tasks, tags, sessionTags,
                              artifacts, metricSnapshots>>
          ELSE /\ tx'.pc = "run"
               /\ Len(tx'.w.sessions) = Len(sessions) + 1]_vars

\* C12: the manual path never persists a part of a bundle.  The seven
\* tables change only in the step that commits a whole bundle (its session,
\* every message, task and artifact, and one metric snapshot); a call that
\* is rejected by the schema or whose transaction throws ends with every
\* table as it was.
C12_NoPartialPersist ==
  [][/\ (<<sessions, messages, tasks, tags, sessionTags, artifacts,
           metricSnapshots>>' #
         <<sessions, messages, tasks, tags, sessionTags, artifacts,
           metricSnapshots>>)
          => /\ tx.pc = "run" /\ tx'.pc = "idle"
             /\ reply'.status = "ok" /\ ~reply'.deduplicated
             /\ Len(sessions') = Len(sessions) + 1
             /\ Len(messages') = Len(messages) + Len(tx.call.bundle.messages)
             /\ Len(tasks') = Len(tasks) + Len(tx.call.bundle.tasks)
             /\ Len(artifacts') = Len(artifacts) + Len(tx.call.bundle.artifacts)
             /\ Len(metricSnapshots') = Len(metricSnapshots) + 1
     /\ (reply' # reply /\ reply'.status \in {"error", "rejected"})
          => UNCHANGED <<sessions, messages, tasks, tags, sessionTags,
                         artifacts, metricSnapshots>>]_vars

\* a transaction that had written four rows threw, and the store is empty
C12_Witness ==
  /\ reply.status = "error"
  /\ reply.undone >= 4
  /\ sessions = <<>> /\ messages = <<>> /\ tags = <<>> /\ sessionTags = <<>>

\* sessions upserted by the first n runs, taken from the counts they wrote
RECURSIVE UpsertedSessionsOf(_, _)
UpsertedSessionsOf(rs, n) ==
  IF n = 0 THEN 0
  ELSE UpsertedSessionsOf(rs, n - 1)
       + (IF rs[n].status = "SUCCESS" THEN rs[n].upsertedSessions ELSE 0)

\* C13: in the adapter path one metric snapshot is recorded per session per
\* run.  Between cycles the number of metric snapshots is the number of
\* session upserts the successful runs have reported, and every snapshot
\* belongs to a stored session.
C13_SnapshotPerSessionPerRun ==
  NoCycleRunning
    => /\ Len(metricSnapshots) = UpsertedSessionsOf(runs, Len(runs))
       /\ \A i \in 1..Len(metricSnapshots) :
            metricSnapshots[i].sessionId \in 1..Len(sessions)

\* C14: a signal stops the watcher cleanly.  Once the signal has arrived no
\* tick is started; when the process has exited no tick of it is running,
\* and prisma.$disconnect() had resolved before the exit.
C14_CleanStop ==
  [][/\ watcher \in {"stopping", "exited"} => started' = started
     /\ watcher' = "exited"
          => /\ released'
             /\ \A c \in CycleIds : cycles'[c].proc = "watcher" => ~Active(c)']_vars

\* C15: a record skipped as malformed is retried.  Whenever the Claude
\* adapter scans, every line that parses, carries a session id and a
\* non-empty content, lies inside the lookback window and has no message row
\* yet is among the messages the scan hands to persistSessions.
C15_SkippedRecordRetried ==
  [][\A c \in CycleIds :
       (/\ cycles[c].pc = "adapter"
        /\ CurrentSource(cycles[c]).type = "CLAUDE"
        /\ cycles'[c].pc # "adapter")
         => \A i \in 1..Len(claudeLog) :
              (/\ claudeLog[i].ok
               /\ claudeLog[i].sid # None
               /\ claudeLog[i].kind = "str"
               /\ claudeLog[i].text = <<"a">>
               /\ claudeLog[i].ts # NoTs
               /\ claudeLog[i].ts >= now - CurrentSource(cycles[c]).lookbackDays
               /\ \A m \in 1..Len(messages) :
                    messages[m].externalMessageId # NativeId(claudeLog[i].uuid))
                => \E k \in 1..Len(cycles'[c].ops) :
                     /\ cycles'[c].ops[k].kind = "message"
                     /\ cycles'[c].ops[k].in.externalMessageId
                          = NativeId(claudeLog[i].uuid)]_vars

\* C16: ensureDefaultIngestionSources is an idempotent upsert by key.  Once a
\* cycle has begun there is exactly one source with key claude-default and
\* exactly one with key opencode-default, however many cycles have begun.
C16_OneSourcePerDefaultKey ==
  started >= 1
    => \A key \in {"claude-default", "opencode-default"} :
         Cardinality({i \in 1..Len(sources) : sources[i].key = key}) = 1

\* a second cycle has begun beside an operator's own source: three rows
C16_Witness ==
  /\ started = 2
  /\ Len(sources) = 3
  /\ \E c \in CycleIds : cycles[c].pc = "start_run" /\ c = 2

\* C17: a failed run has exactly one error entry.  When a cycle leaves its
\* catch block, the run is FAILED, exactly one error entry names that run,
\* it names the source, carries the code INGESTION_FAILURE and the message of
\* the error caught, and the source's last-error time and status message
\* are that moment and that message.  No run has two error entries, and
\* every error entry belongs to a FAILED run, so a run that ends SUCCESS has
\* none.
C17_OneErrorEntryPerFailedRun ==
  /\ [][\A c \in CycleIds :
          (cycles[c].pc = "catch_src" /\ cycles'[c] # cycles[c]
             /\ cycles'[c].pc # "dead")
          => /\ runs'[cycles[c].run].status = "FAILED"
             /\ Cardinality({e \in 1..Len(errors') :
                               errors'[e].runId = cycles[c].run}) = 1
             /\ \A e \in 1..Len(errors') :
                  errors'[e].runId = cycles[c].run
                    => /\ errors'[e].sourceId = CurrentSource(cycles[c]).id
                       /\ errors'[e].code = "INGESTION_FAILURE"
                       /\ errors'[e].message = cycles[c].err
             /\ sources'[CurrentSource(cycles[c]).id].lastErrorAt = now
             /\ sources'[CurrentSource(cycles[c]).id].statusMessage
                  = <<cycles[c].err>>]_vars
  /\ [](\A e \in 1..Len(errors) :
          /\ runs[errors[e].runId].status = "FAILED"
          /\ \A f \in 1..Len(errors) : errors[f].runId = errors[e].runId => f = e)

\* a cycle has left the catch block of a failed run and gone on
C17_Witness ==
  /\ Len(errors) = 1
  /\ runs[errors[1].runId].status = "FAILED"
  /\ sources[errors[1].sourceId].lastErrorAt # NoTs
  /\ \E i \in 1..Len(runs) : runs[i].status = "SUCCESS"

\* the three tag names, and the tag a token opens or closes ("" for none)
TagNames == {"local-command-caveat", "system-reminder", "local-command-stdout"}

Opens(tok) ==
  IF \E t \in TagNames : tok \in OpenTags(t)
  THEN CHOOSE t \in TagNames : tok \in OpenTags(t) ELSE ""

Closes(tok) ==
  IF \E t \in TagNames : tok \in CloseTags(t)
  THEN CHOOSE t \in TagNames : tok \in CloseTags(t) ELSE ""

\* a token that is no tag and no piece of one
PlainToken(tok) ==
  /\ Opens(tok) = "" /\ Closes(tok) = ""
  /\ \A t \in TagNames : tok # OpenHead(t) /\ tok # OpenTail(t)

\* from position i on, with `open` the tag of the span being read ("" outside
\* a span), the text is plain tokens and paired spans whose inside is plain
RECURSIVE WellFormedFrom(_, _, _)
WellFormedFrom(s, i, open) ==
  IF i > Len(s) THEN open = ""
  ELSE IF PlainToken(s[i]) THEN WellFormedFrom(s, i + 1, open)
  ELSE IF open = "" THEN Opens(s[i]) # "" /\ WellFormedFrom(s, i + 1, Opens(s[i]))
  ELSE Closes(s[i]) = open /\ WellFormedFrom(s, i + 1, "")

\* the tokens of a well-formed text that lie outside its spans
RECURSIVE OutsideFrom(_, _, _)
OutsideFrom(s, i, open) ==
  IF i > Len(s) THEN <<>>
  ELSE IF open # "" THEN OutsideFrom(s, i + 1, IF Closes(s[i]) = open THEN "" ELSE open)
  ELSE IF Opens(s[i]) # "" THEN OutsideFrom(s, i + 1, Opens(s[i]))
  ELSE <<s[i]>> \o OutsideFrom(s, i + 1, "")

\* C18: for a text whose markup is well-formed paired spans of the three
\* tags (either letter case, on one line or across lines), the sanitizer
\* returns the tokens outside the spans, in order, without leading and
\* trailing whitespace; a text that is one span yields the empty text.
C18_RemovesExactlyTheSpans ==
  (res.fn = "sanitizeImportedText" /\ WellFormedFrom(arg.text, 1, ""))
    => /\ res.out = Trim(OutsideFrom(arg.text, 1, ""))
       /\ (/\ Len(arg.text) >= 2
           /\ Opens(arg.text[1]) # ""
           /\ Closes(arg.text[Len(arg.text)]) = Opens(arg.text[1])
           /\ \A k \in 2..(Len(arg.text) - 1) : PlainToken(arg.text[k]))
            => res.out = <<>>

\* an upper-case span across two lines has been cut out of a text with
\* plain text on both sides
C18_Witness ==
  /\ res.fn = "sanitizeImportedText"
  /\ arg.text = <<"a", "<LOCAL-COMMAND-CAVEAT>", "\n", "</local-command-caveat>", "a">>
  /\ res.out = <<"a", "a">>

\* C19: the output of the sanitizer holds no complete span (an opening tag
\* of one of the three names with a closing tag of that name after it), and
\* sanitizing the output again returns it unchanged.
C19_NoSpanSurvives ==
  /\ res.fn = "sanitizeImportedText"
       => \A t \in TagNames : \A i \in 1..Len(res.out) :
            OpenLen(res.out, i, t) > 0
              => \A j \in (i + OpenLen(res.out, i, t))..Len(res.out) :
                   res.out[j] \notin CloseTags(t)
  /\ res.fn = "sanitizeImportedText twice" => res.again = res.out

\* C20: the four mappers follow their tables on every input.  Family A
\* roles: assistant -> ASSISTANT, system and progress -> TOOL, anything else
\* or nothing -> USER.  Family A part types: text -> TEXT, thinking ->
\* REASONING, tool_use and tool_result -> TOOL, else OTHER.  Family B roles:
\* assistant -> ASSISTANT, tool -> TOOL, else USER.  Family B part types:
\* text, reasoning, tool, step-start, step-finish and error map to their
\* counterparts, else OTHER.
C20_MappersFollowTables ==
  res.fn = "map"
    => /\ res.claudeRole =
            (CASE arg.type = "assistant" -> "ASSISTANT"
               [] arg.type \in {"system", "progress"} -> "TOOL"
               [] OTHER -> "USER")
       /\ res.claudePartType =
            (CASE arg.type = "text" -> "TEXT"
               [] arg.type = "thinking" -> "REASONING"
               [] arg.type \in {"tool_use", "tool_result"} -> "TOOL"
               [] OTHER -> "OTHER")
       /\ res.openCodeRole =
            (CASE arg.type = "assistant" -> "ASSISTANT"
               [] arg.type = "tool" -> "TOOL"
               [] OTHER -> "USER")
       /\ res.openCodePartType =
            (CASE arg.type = "text" -> "TEXT"
               [] arg.type = "reasoning" -> "REASONING"
               [] arg.type = "tool" -> "TOOL"
               [] arg.type = "step-start" -> "STEP_START"
               [] arg.type = "step-finish" -> "STEP_FINISH"
               [] arg.type = "error" -> "ERROR"
               [] OTHER -> "OTHER")

\* the mappers have been applied to an absent type: the fallbacks
C20_Witness ==
  /\ res.fn = "map"
  /\ arg.type = None
  /\ res.claudeRole = "USER" /\ res.openCodeRole = "USER"
  /\ res.claudePartType = "OTHER" /\ res.openCodePartType = "OTHER"

\* the cleaned text: sanitized, whitespace runs collapsed, trimmed
CleanChars(content) ==
  Chars(Trim(CollapseWs(sanitizeImportedText(content))))

\* out is the first n characters of chars, or all of them if there are fewer
IsPrefixOfLength(out, chars, n) ==
  /\ Len(out) = Min(Len(chars), n)
  /\ \A i \in 1..Len(out) : out[i] = chars[i]

TitleAsSpecified(out, clean, id) ==
  IF clean = <<>>
  THEN /\ Len(out) = 8 + Min(Len(id), 8)
       /\ SubSeq(out, 1, 8) = <<"S", "e", "s", "s", "i", "o", "n", " ">>
       /\ \A i \in 1..Min(Len(id), 8) : out[8 + i] = id[i]
  ELSE /\ IsPrefixOfLength(out, clean, 80)
       /\ Len(out) <= 80

\* C21: the title of a content is "Session " and the first 8 characters of
\* the session id when the cleaned content is empty, and otherwise the first
\* 80 characters of the cleaned content, so never more than 80 characters.
C21_TitleFromContent ==
  res.fn = "fallbackSessionTitle"
    => TitleAsSpecified(res.out, CleanChars(arg.content), IdChars(arg.sessionId))

\* a title cut to 80 characters from a cleaned content of 81
C21_Witness ==
  /\ res.fn = "fallbackSessionTitle"
  /\ arg.content = <<" ", RunToken(81)>>
  /\ res.out = Letters(80)

\* message i is the first of its role
FirstOfRole(ms, i, role) ==
  /\ ms[i].role = role
  /\ \A j \in 1..(i - 1) : ms[j].role # role

\* message i is the one the summary is to be taken from
IsChosen(ms, i) ==
  IF \E j \in 1..Len(ms) : ms[j].role = "ASSISTANT"
  THEN FirstOfRole(ms, i, "ASSISTANT")
  ELSE IF \E j \in 1..Len(ms) : ms[j].role = "USER"
       THEN FirstOfRole(ms, i, "USER")
       ELSE i = 1

\* out is null for an empty cleaned content and otherwise starts as it does
SummaryTakenFrom(out, clean) ==
  IF clean = <<>> THEN out = NullText
  ELSE /\ out # NullText
       /\ out # <<>>
       /\ Len(out) >= Min(Len(clean), 177)
       /\ \A k \in 1..Min(Len(clean), 177) : out[k] = clean[k]

\* C22: the summary is taken from the first assistant message, else from
\* the first user message, else from the first message; it is null, and not
\* the empty string, for an empty list and when the cleaned content of the
\* chosen message is empty.
C22_SummaryChoice ==
  res.fn = "deriveSessionSummary"
    => IF arg.messages = <<>> THEN res.out = NullText
       ELSE \A i \in 1..Len(arg.messages) :
              IsChosen(arg.messages, i)
                => SummaryTakenFrom(res.out, CleanChars(arg.messages[i].content))

\* an assistant message behind a user message gives the summary
C22_Witness ==
  /\ res.fn = "deriveSessionSummary"
  /\ arg.messages = <<[role |-> "USER", content |-> <<"a">>],
                      [role |-> "TOOL", content |-> <<"a">>],
                      [role |-> "ASSISTANT", content |-> <<"b">>]>>
  /\ res.out = <<"b">>

\* C23: a summary that is not null has at most 180 characters: a cleaned
\* content of at most 180 characters is returned as it is, and a longer one
\* is cut to its first 177 characters followed by "...", 180 in all.
C23_SummaryLength ==
  (res.fn = "deriveSessionSummary" /\ res.out # NullText)
    => \A i \in 1..Len(arg.messages) :
         IsChosen(arg.messages, i)
           => /\ Len(res.out) <= 180
              /\ IF Len(CleanChars(arg.messages[i].content)) <= 180
                 THEN res.out = CleanChars(arg.messages[i].content)
                 ELSE /\ Len(res.out) = 180
                      /\ SubSeq(res.out, 178, 180) = <<".", ".", ".">>
                      /\ \A k \in 1..177 :
                           res.out[k] = CleanChars(arg.messages[i].content)[k]

\* a cleaned content of 181 characters is cut
C23_Witness ==
  /\ res.fn = "deriveSessionSummary"
  /\ arg.messages = <<[role |-> "USER", content |-> <<"a", RunToken(180)>>]>>
  /\ Len(res.out) = 180
  /\ res.out[177] = "a" /\ res.out[178] = "."

\* position of the first line break of a chunk, one past its end for none
FirstBreak(chunk) ==
  IF \E i \in 1..Len(chunk) : chunk[i] = "\n"
  THEN CHOOSE i \in 1..Len(chunk) :
         chunk[i] = "\n" /\ \A j \in 1..(i - 1) : chunk[j] # "\n"
  ELSE Len(chunk) + 1

IsLabelled(chunk) == LabelRole(chunk[1]) # None

\* the text behind the label on the first line
AfterLabel(chunk) == Trim(SubSeq(chunk, 2, FirstBreak(chunk) - 1))

\* the lines behind the first one
RemainingLines(chunk) == Trim(SubSeq(chunk, FirstBreak(chunk) + 1, Len(chunk)))

\* the rest joined to the text behind the label by a line break, trimmed
JoinedContent(after, rest) ==
  IF rest = <<>> THEN after
  ELSE IF after = <<>> THEN rest
  ELSE after \o <<"\n">> \o rest

LabelledEntry(chunk) ==
  [role |-> LabelRole(chunk[1]),
   content |-> JoinedContent(AfterLabel(chunk), RemainingLines(chunk))]

\* no chunk is a label with nothing behind it
NoBareLabel(chunks) ==
  \A k \in 1..Len(chunks) :
    IsLabelled(chunks[k]) => LabelledEntry(chunks[k]).content # <<>>

\* the entries that the labelled chunks with content call for, in chunk order
RECURSIVE LabelledEntries(_)
LabelledEntries(chunks) ==
  IF chunks = <<>> THEN <<>>
  ELSE IF IsLabelled(chunks[1]) /\ LabelledEntry(chunks[1]).content # <<>>
       THEN <<LabelledEntry(chunks[1])>> \o LabelledEntries(Tail(chunks))
       ELSE LabelledEntries(Tail(chunks))

\* e can be had from o by leaving entries out
RECURSIVE IsSubsequence(_, _)
IsSubsequence(e, o) ==
  IF e = <<>> THEN TRUE
  ELSE IF o = <<>> THEN FALSE
  ELSE IF e[1] = o[1] THEN IsSubsequence(Tail(e), Tail(o))
  ELSE IsSubsequence(e, Tail(o))

LabelledInPlace(chunks, out) ==
  /\ IsSubsequence(LabelledEntries(chunks), out)
  /\ NoBareLabel(chunks)
       => /\ Len(out) = Len(chunks)
          /\ \A k \in 1..Len(chunks) :
               IsLabelled(chunks[k]) => out[k] = LabelledEntry(chunks[k])

\* C24: every chunk whose first line begins with user:, assistant: or tool:
\* in any letter case gives an entry with that role, whose content is the
\* text behind the label joined by a line break to the remaining lines of
\* the chunk, trimmed; the entries stand in the order of their chunks.
C24_LabelledChunks ==
  res.fn = "parseTranscript" => LabelledInPlace(Chunks(arg.raw), res.out)

\* a labelled chunk of two lines
C24_Witness ==
  /\ res.fn = "parseTranscript"
  /\ arg.raw = <<"TOOL:", " ", "a", "\n", "b", " ">>
  /\ res.out = <<[role |-> "tool", content |-> <<"a", "\n", "b">>]>>

\* number of chunks before the k-th that carry no label
UnlabelledBefore(chunks, k) ==
  Cardinality({j \in 1..(k - 1) : ~IsLabelled(chunks[j])})

AlternateInPlace(chunks, out) ==
  NoBareLabel(chunks)
    => /\ Len(out) = Len(chunks)
       /\ \A k \in 1..Len(chunks) :
            ~IsLabelled(chunks[k])
              => out[k].role = (IF UnlabelledBefore(chunks, k) % 2 = 0
                                THEN "user" ELSE "assistant")

\* C25: chunks without a label get the roles user, assistant, user, ... in
\* turn, counted over the chunks without a label only, however many chunks
\* with a label stand before them.
C25_AlternationOverUnlabelled ==
  res.fn = "parseTranscript" => AlternateInPlace(Chunks(arg.raw), res.out)

\* C26: every entry returned by parseTranscript has non-empty content.
C26_NoEmptyEntry ==
  res.fn = "parseTranscript"
    => \A k \in 1..Len(res.out) : res.out[k].content # <<>>

\* a date string in one of the ISO-8601 forms
IsIso8601(stamp) == stamp \in {UtcStamp, OffsetStamp}

\* the rules for accepting a candidate, rule by rule
RulesMet(b) ==
  /\ b.title # <<>>
  /\ b.messages # <<>>
  /\ \A k \in 1..Len(b.messages) :
       /\ b.messages[k].role \in {"user", "assistant", "tool"}
       /\ b.messages[k].content # <<>>
       /\ b.messages[k].promptTokens = NoTok \/ b.messages[k].promptTokens >= 0
       /\ b.messages[k].completionTokens = NoTok \/ b.messages[k].completionTokens >= 0
       /\ b.messages[k].totalTokens = NoTok \/ b.messages[k].totalTokens >= 0
  /\ b.startedAt = None \/ IsIso8601(b.startedAt)
  /\ b.endedAt = None \/ IsIso8601(b.endedAt)
  /\ \A k \in 1..Len(b.tasks) :
       /\ b.tasks[k].title # <<>>
       /\ b.tasks[k].status \in {None, "open", "in_progress", "done", "cancelled"}
       /\ b.tasks[k].priority \in {None, "low", "medium", "high"}
  /\ \A k \in 1..Len(b.artifacts) :
       /\ b.artifacts[k].type # ""
       /\ b.artifacts[k].name # ""
       /\ b.artifacts[k].content # NoText
  /\ \A k \in 1..Len(b.tags) : b.tags[k] # <<>>

\* C27: the validator accepts a candidate exactly when the title is not
\* empty, there is a message, every message has one of the three roles,
\* content and no negative token count, the dates are ISO-8601 timestamps,
\* every task has a title and a status and priority of its enumeration,
\* every artifact has a type, a name and a content string, and every tag is
\* not empty; it changes nothing.
C27_AcceptsExactlyWhen ==
  res.fn = "canonicalBundleSchema"
    => /\ res.ok <=> RulesMet(arg.bundle)
       /\ sessions = <<>> /\ messages = <<>> /\ tasks = <<>>
       /\ tags = <<>> /\ artifacts = <<>>

PathIf(violated, path) == IF violated THEN {path} ELSE {}

MessagePaths(m, at) ==
  PathIf(m.role \notin {"user", "assistant", "tool"}, <<"messages", at, "role">>)
    \cup PathIf(m.content = <<>>, <<"messages", at, "content">>)
    \cup PathIf(m.promptTokens < NoTok, <<"messages", at, "promptTokens">>)
    \cup PathIf(m.completionTokens < NoTok, <<"messages", at, "completionTokens">>)
    \cup PathIf(m.totalTokens < NoTok, <<"messages", at, "totalTokens">>)

TaskPaths(t, at) ==
  PathIf(t.title = <<>>, <<"tasks", at, "title">>)
    \cup PathIf(t.status \in {"blocked"}, <<"tasks", at, "status">>)
    \cup PathIf(t.priority \in {"urgent"}, <<"tasks", at, "priority">>)

ArtifactPaths(a, at) ==
  PathIf(a.type = "", <<"artifacts", at, "type">>)
    \cup PathIf(a.name = "", <<"artifacts", at, "name">>)
    \cup PathIf(a.content = NoText, <<"artifacts", at, "content">>)
    \cup PathIf(a.messageIndex < NoTok, <<"artifacts", at, "messageIndex">>)

\* the paths of all fields of a candidate that break a rule of the schema
ViolatedPaths(b) ==
  PathIf(b.title = <<>>, <<"session", "title">>)
    \cup PathIf(b.startedAt \in {OffsetStamp, FreeFormDate}, <<"session", "startedAt">>)
    \cup PathIf(b.endedAt \in {OffsetStamp, FreeFormDate}, <<"session", "endedAt">>)
    \cup PathIf(b.messages = <<>>, <<"messages">>)
    \cup UNION {MessagePaths(b.messages[k], NumStr(k - 1)) : k \in 1..Len(b.messages)}
    \cup UNION {TaskPaths(b.tasks[k], NumStr(k - 1)) : k \in 1..Len(b.tasks)}
    \cup UNION {ArtifactPaths(b.artifacts[k], NumStr(k - 1)) : k \in 1..Len(b.artifacts)}
    \cup UNION {PathIf(b.tags[k] = <<>>, <<"tags", NumStr(k - 1)>>) : k \in 1..Len(b.tags)}

PathsOf(issues) == {i.path : i \in issues}

C29_EnsureWorkspaceOnce ==
  /\ Len(workspaces) <= 1
  /\ \A c \in CycleIds :
       /\ cycles[c].err # "unique"
       /\ cycles[c].ws \in {0, 1}

\* message a does not come after message b in time; no timestamp is earliest
NotLater(a, b) ==
  \/ a.sourceTimestamp = NoTs
  \/ b.sourceTimestamp # NoTs /\ a.sourceTimestamp <= b.sourceTimestamp

InTimeOrder(ms) ==
  /\ \A i \in 1..Len(ms) : ms[i].ordinal = i - 1
  /\ \A i, j \in 1..Len(ms) : i < j => NotLater(ms[i], ms[j])

\* C30: in the output of a scan the messages of every session stand in the
\* order of their source timestamps, those without a timestamp first, and
\* carry the ordinals 0..n-1 in that order, whatever order they were read in.
C30_ScanOutputOrdered ==
  res.fn \in {"runClaudeSource", "runOpenCodeSource"}
    => \A s \in 1..Len(res.out.sessions) : InTimeOrder(res.out.sessions[s].messages)

\* three lines of one session read latest first, the middle one undated
C30_Witness ==
  /\ res.fn = "runClaudeSource"
  /\ arg.since = 0
  /\ Len(arg.lines) = 3
  /\ arg.lines[1].ts = 3 /\ arg.lines[2].ts = NoTs /\ arg.lines[3].ts = 1
  /\ Len(res.out.sessions) = 1
  /\ [i \in 1..3 |-> res.out.sessions[1].messages[i].externalMessageId]
       = <<NativeId("m2"), NativeId("m3"), NativeId("m1")>>

\* a record the line loop passes over: a line that does not parse, or an
\* event without a session id
IsSkippedRecord(l) == ~l.ok \/ l.sid = None

\* a well-formed text event that the scan with lower bound since must take
IsTakenEvent(l, since) ==
  /\ l.ok /\ l.sid # None /\ l.uuid # None
  /\ l.kind = "str" /\ l.text = <<"a">>
  /\ l.ts = NoTs \/ l.ts >= since

\* the scan result holds a message with this id in the session with this id
HasMessage(found, sid, id) ==
  \E s \in 1..Len(found) :
    /\ found[s].externalSessionId = sid
    /\ \E m \in 1..Len(found[s].messages) :
         found[s].messages[m].externalMessageId = id

MessageTotal(found) ==
  IF found = <<>> THEN 0
  ELSE Cardinality({<<s, m>> \in (1..Len(found)) \X (1..MaxScanItems) :
                      m <= Len(found[s].messages)})

\* C31: in Adapter A a line that does not parse and an event without a session
\* id yield no message and no session and do not end the run: every
\* well-formed event of the log is still in the scan result.
C31_BadRecordsSkipped ==
  res.fn = "runClaudeSource"
    => /\ \A i \in 1..Len(arg.lines) :
            IsTakenEvent(arg.lines[i], arg.since)
              => HasMessage(res.out.sessions, arg.lines[i].sid,
                            NativeId(arg.lines[i].uuid))
       /\ \A s \in 1..Len(res.out.sessions) :
            \E i \in 1..Len(arg.lines) :
              /\ ~IsSkippedRecord(arg.lines[i])
              /\ arg.lines[i].sid = res.out.sessions[s].externalSessionId
       /\ MessageTotal(res.out.sessions)
            <= Cardinality({i \in 1..Len(arg.lines) : ~IsSkippedRecord(arg.lines[i])})

\* a text event between an event without a session id and a broken line
C31_Witness ==
  /\ res.fn = "runClaudeSource"
  /\ Len(arg.lines) = 3
  /\ arg.lines[1].ok /\ arg.lines[1].sid = None
  /\ IsTakenEvent(arg.lines[2], arg.since)
  /\ ~arg.lines[3].ok
  /\ Len(res.out.sessions) = 1
  /\ Len(res.out.sessions[1].messages) = 1
  /\ res.out.sessions[1].messages[1].externalMessageId = NativeId("m2")

\* the scan result holds a message with this id
EmitsMessage(found, id) ==
  \E s \in 1..Len(found) :
    \E m \in 1..Len(found[s].messages) : found[s].messages[m].externalMessageId = id

\* the text items of a list content that are objects of type text with a
\* text that is not blank
HasTextItem(items) ==
  \E k \in 1..Len(items) :
    items[k].obj /\ items[k].type = "text" /\ items[k].text \in {<<"b">>}

\* an event of Adapter A that yields no content: a string that is markup
\* only, or a list without a text item
IsEmptyEvent(l) ==
  /\ l.ok /\ l.sid # None /\ l.uuid # None
  /\ \/ l.kind = "str" /\ l.text = <<"<system-reminder>", "x", "</SYSTEM-REMINDER>">>
     \/ l.kind = "list" /\ ~HasTextItem(l.items)

\* a message file of Adapter B with no text part that is not blank and no
\* summary title
IsEmptyFile(m) ==
  /\ m.id # None
  /\ m.summaryTitle = NoText
  /\ \A k \in 1..Len(m.parts) :
       m.parts[k].type # "text" \/ m.parts[k].text \in {<<>>, <<" ">>, NoText}

EmptySources ==
  IF arg.kind = "claude"
  THEN {arg.lines[i].uuid : i \in {k \in 1..Len(arg.lines) : IsEmptyEvent(arg.lines[k])}}
  ELSE {arg.files[1].messages[i].id :
          i \in {k \in 1..Len(arg.files[1].messages) :
                   IsEmptyFile(arg.files[1].messages[k])}}

\* C32: no adapter emits and no run stores a message with empty content: an
\* event of Adapter A whose sanitized string or whose joined text parts are
\* empty, and a message of Adapter B with neither a text that is not blank
\* nor a summary title, yield no message.
C32_NoEmptyMessage ==
  res.fn \in {"runClaudeSource", "runOpenCodeSource"}
    => /\ \A s \in 1..Len(res.out.sessions) :
            \A m \in 1..Len(res.out.sessions[s].messages) :
              res.out.sessions[s].messages[m].content # <<>>
       /\ \A id \in EmptySources : ~EmitsMessage(res.out.sessions, NativeId(id))
       /\ \A r \in 1..Len(messages) : messages[r].content # <<>>

\* a markup-only event, a list event with a tool item only and a text event:
\* one message is stored
C32_Witness ==
  /\ res.fn = "runClaudeSource"
  /\ res.persisted = 1
  /\ Len(arg.lines) = 3
  /\ arg.lines[1] = MarkupEvent("m1", 2)
  /\ arg.lines[2].kind = "list" /\ arg.lines[2].items = <<ToolItem>>
  /\ IsTakenEvent(arg.lines[3], arg.since)
  /\ Len(messages) = 1
  /\ messages[1].content = <<"a">>

\* an event of Adapter A that yields a message in the scan
IsMessageEvent(l, since) ==
  /\ l.ok /\ l.sid # None
  /\ l.ts = NoTs \/ l.ts >= since
  /\ l.kind = "str" /\ l.text \in {<<"a">>, <<RunToken(SummaryMax - 4)>>}

\* the first 100 characters of the content of such an event
ContentPrefix(l) == IF l.text = <<"a">> THEN <<"a">> ELSE Letters(100)

\* the natural id the event is to get
NaturalId(l) ==
  IF l.uuid # None THEN <<"id", l.uuid>>
  ELSE IF l.msgId # None THEN <<"id", l.msgId>>
  ELSE <<"sha1", l.sid, "f1">> \o ContentPrefix(l)

\* the keys (session, message id) of the scan result
ResultKeys ==
  {<<res.out.sessions[s].externalSessionId,
     res.out.sessions[s].messages[m].externalMessageId>> :
     <<s, m>> \in {p \in (1..Len(res.out.sessions)) \X (1..MaxScanItems) :
                     p[2] <= Len(res.out.sessions[p[1]].messages)}}

\* C33: in Adapter A the natural id of a message is the id of the event when
\* it has one, and else a hash of the session id, the file path and the first
\* 100 characters of the content; the same event read again gets the same id,
\* so writing the scan of the same file again adds no message row.
C33_NaturalMessageId ==
  res.fn = "runClaudeSource"
    => /\ \A i \in 1..Len(arg.lines) :
            IsMessageEvent(arg.lines[i], arg.since)
              => HasMessage(res.out.sessions, arg.lines[i].sid, NaturalId(arg.lines[i]))
       /\ res.persisted >= 1 => Len(messages) = Cardinality(ResultKeys)

\* two events without an id, one of them longer than 100 characters, written
\* to the store twice: two rows, under their derived ids
C33_Witness ==
  /\ res.fn = "runClaudeSource"
  /\ res.persisted = 2
  /\ Len(arg.lines) = 2
  /\ arg.lines[1] = TextEvent(None, 2)
  /\ arg.lines[2] = [TextEvent(None, 2) EXCEPT !.text = <<RunToken(SummaryMax - 4)>>]
  /\ Len(messages) = 2
  /\ messages[1].externalMessageId = <<"sha1", "s1", "f1", "a">>
  /\ messages[2].externalMessageId = <<"sha1", "s1", "f1">> \o Letters(100)

\* the later of the updated and the created time of a session file that has
\* at least one of them
LaterStamp(f) ==
  IF f.updated = NoTs THEN f.created
  ELSE IF f.created = NoTs THEN f.updated
  ELSE IF f.updated >= f.created THEN f.updated ELSE f.created

HasStamp(f) == f.updated # NoTs \/ f.created # NoTs

\* C34: Adapter B scans a session file exactly when the later of its updated
\* and created times is at or after the lower bound of the scan; a session
\* file before the bound gives no session, no message and no candidate for
\* the maximum timestamp.
C34_SessionCutoffByLaterStamp ==
  (res.fn = "runOpenCodeSource" /\ HasStamp(arg.files[1]))
    => IF LaterStamp(arg.files[1]) >= arg.since
       THEN /\ Len(res.out.sessions) = 1
            /\ res.out.sessions[1].externalSessionId = arg.files[1].id
       ELSE /\ res.out.sessions = <<>>
            /\ res.out.maxTimestamp = NoTs

\* the ordinals of the parts are 0..k-1 in the order of the parts
DenseParts(ps) == \A k \in 1..Len(ps) : ps[k].ordinal = k - 1

\* the parts stand in the order of their start times, a missing one as zero
PartsByStart(ps) ==
  \A j, k \in 1..Len(ps) :
    j < k => (IF ps[j].sourceTimestamp = NoTs THEN 0 ELSE ps[j].sourceTimestamp)
               <= (IF ps[k].sourceTimestamp = NoTs THEN 0 ELSE ps[k].sourceTimestamp)

\* C35: the parts of every message an adapter builds carry the ordinals
\* 0..k-1, and in Adapter B they stand in the order of their start times, a
\* missing start counted as zero.
C35_DensePartOrdinals ==
  res.fn \in {"runClaudeSource", "runOpenCodeSource"}
    => \A s \in 1..Len(res.out.sessions) :
         \A m \in 1..Len(res.out.sessions[s].messages) :
           /\ DenseParts(res.out.sessions[s].messages[m].parts)
           /\ res.fn = "runOpenCodeSource"
                => PartsByStart(res.out.sessions[s].messages[m].parts)

FinalStatus == {"SUCCESS", "FAILED"}

\* cycle c leaves the iteration of its current source in this step
LeavesIteration(c) ==
  /\ cycles[c].pc \in ActivePcs \ {"start_run"}
  /\ \/ cycles'[c].idx = cycles[c].idx + 1
     \/ cycles'[c].pc = "done"

\* cycle c creates a run in this step
CreatesRun(c) ==
  /\ Len(runs') = Len(runs) + 1
  /\ cycles'[c].run = Len(runs')
  /\ cycles[c].run # Len(runs')

\* the sources of a cycle stand in creation order
InCreationOrder(srcs) ==
  \A i, j \in 1..Len(srcs) : i < j => srcs[i].id < srcs[j].id

\* C36: within one cycle the enabled sources are taken one after another in
\* creation order: a cycle has at most one run in progress, it leaves the
\* iteration of a source only with the run of that source SUCCESS or
\* FAILED, and it creates the run of the next source only after that.
C36_SourcesInSequence ==
  [][\A c \in CycleIds :
       /\ InCreationOrder(cycles[c].srcs)
       /\ LeavesIteration(c)
            => /\ cycles[c].run # 0
               /\ runs'[cycles[c].run].status \in FinalStatus
       /\ CreatesRun(c)
            => /\ cycles[c].pc = "start_run"
               /\ cycles[c].run = 0
               /\ runs'[Len(runs')].status = "RUNNING"
               /\ runs'[Len(runs')].sourceId = cycles[c].srcs[cycles[c].idx].id
               /\ cycles[c].idx > 1
                    => \E r \in 1..Len(runs) :
                         /\ runs[r].sourceId = cycles[c].srcs[cycles[c].idx - 1].id
                         /\ runs[r].status \in FinalStatus]_vars

\* a cycle at its second source, the run of its first source finished, while
\* another cycle is still at its first source
C36_Witness ==
  \E c, d \in CycleIds :
    /\ c # d
    /\ cycles[c].idx = 2 /\ cycles[c].pc = "adapter"
    /\ runs[cycles[c].run].status = "RUNNING"
    /\ runs[cycles[c].run].sourceId = cycles[c].srcs[2].id
    /\ cycles[d].idx = 1 /\ cycles[d].pc \in {"adapter", "persist"}
    /\ \E r \in 1..Len(runs) :
         runs[r].sourceId = cycles[c].srcs[1].id /\ runs[r].status \in FinalStatus

\* C37: the checkpoint of a source never moves backwards: every value
\* written to (source, lastTimestamp) is at or after the value stored before
\* it, whatever the interleaving of the cycles.
C37_CheckpointMonotonic ==
  [][\A k \in 1..Len(checkpoints) :
       DateOf(checkpoints'[k].cursorValue) >= DateOf(checkpoints[k].cursorValue)]_vars

\* the total of a bundle: totalTokens of each message, or the sum of its
\* prompt and completion tokens where totalTokens is absent
RECURSIVE BundleTotal(_)
BundleTotal(ms) ==
  IF ms = <<>> THEN 0
  ELSE (IF Head(ms).totalTokens # -1 THEN Head(ms).totalTokens
        ELSE (IF Head(ms).promptTokens = -1 THEN 0 ELSE Head(ms).promptTokens)
             + (IF Head(ms).completionTokens = -1 THEN 0
                ELSE Head(ms).completionTokens))
       + BundleTotal(Tail(ms))

\* no stored session has the source tool and the external id of the call
NoSessionWithKey(call) ==
  \/ call.bundle.externalSessionId = None
  \/ \A r \in 1..Len(sessions) :
       \/ sessions[r].sourceToolId # call.sourceToolId
       \/ sessions[r].externalSessionId # call.bundle.externalSessionId

\* the step commits the bundle of the call: one session, its messages in
\* bundle order, its tasks and artifacts, and one metric snapshot
CommitsBundle(call) ==
  /\ reply'.status = "ok"
  /\ reply'.deduplicated = FALSE
  /\ reply'.sessionId = Len(sessions')
  /\ Len(sessions') = Len(sessions) + 1
  /\ Len(messages') = Len(messages) + Len(call.bundle.messages)
  /\ \A k \in 1..Len(call.bundle.messages) :
       /\ messages'[Len(messages) + k].sessionId = Len(sessions')
       /\ messages'[Len(messages) + k].ordinal = k - 1
       /\ messages'[Len(messages) + k].content = call.bundle.messages[k].content
  /\ Len(tasks') = Len(tasks) + Len(call.bundle.tasks)
  /\ Len(artifacts') = Len(artifacts) + Len(call.bundle.artifacts)
  /\ Len(metricSnapshots') = Len(metricSnapshots) + 1
  /\ metricSnapshots'[Len(metricSnapshots')].sessionId = Len(sessions')
  /\ metricSnapshots'[Len(metricSnapshots')].totalTokens
       = BundleTotal(call.bundle.messages)

\* C38: a call of ingestCanonicalBundle with a bundle the validator accepts,
\* for which no session with the same source tool and external id is stored,
\* commits and returns deduplicated = false: one session, one message per
\* bundle message with its position as ordinal, one task and one artifact
\* per entry, and one metric snapshot with the total of the bundle.
C38_AcceptedBundleCommits ==
  [][(/\ tx.pc = "run"
      /\ tx'.pc = "idle"
      /\ faults' = faults
      /\ NoSessionWithKey(tx.call))
       => CommitsBundle(tx.call)]_vars

\* the stored time bounds of session row r enclose the time of message row m
Encloses(r, m) ==
  /\ sessions[r].startedAt # NoTs => sessions[r].startedAt <= messages[m].sourceTimestamp
  /\ sessions[r].lastActivityAt # NoTs
       => sessions[r].lastActivityAt >= messages[m].sourceTimestamp

\* C39: once the runs so far have returned, the stored time bounds of every
\* session written by Adapter A enclose its stored messages: startedAt is no
\* later and lastActivityAt no earlier than the source timestamp of any of
\* them.
C39_SessionBoundsEnclose ==
  NoCycleRunning
    => \A r \in 1..Len(sessions) :
         sessions[r].importSource = "claude-watcher"
           => \A m \in 1..Len(messages) :
                (messages[m].sessionId = r /\ messages[m].sourceTimestamp # NoTs)
                  => Encloses(r, m)

====
